---- MODULE Spec2Model ----
(***************************************************************************)
(* Model of the momentum screening and caching engine of                   *)
(* python-stock-tracker: the two file caches (CacheManager in              *)
(* crypto_utils.py, StockCacheManager in utils.py), their rate limiters,   *)
(* the price history fetchers, the stock_data table of db.py and the two   *)
(* screening batches.                                                      *)
(*                                                                         *)
(* Time is an integer clock `now`.  The limits, windows and TTLs of the     *)
(* program are scaled down to a few calls and a few ticks; every           *)
(* comparison is the comparison the code makes.                            *)
(***************************************************************************)
EXTENDS Integers, Sequences, FiniteSets, TLC

VARIABLES
    now,        \* the clock read by datetime.now() and time.time()
    files,      \* files[store][path]: the content of each cache file
    stockDir,   \* whether the directory .cache/stocks exists
    written,    \* per cache file: what the last set() call on it was given
    missed,     \* per cache file: the entry a get() reported absent by age
    rate,       \* rate[api]: calls and reset_time of the rate limiter
    winCalls,   \* per api: check_rate_limit calls since its window began
    pending,    \* the api whose check_rate_limit just returned False
    db,         \* the rows of table stock_data, in insertion order
    saved,      \* the rows of table screening_results, in insertion order
    batch,      \* the screening batch in progress
    tab,        \* the tab of the app the session works in
    callers,    \* the threads inside check_rate_limit, the calls granted and issued
    op          \* the last operation, its arguments and its result

cacheVars == <<files, stockDir, written, missed>>
rateVars == <<rate, winCalls, pending>>
dbVars == <<db, saved, batch>>
vars == <<now, files, stockDir, written, missed, rate, winCalls, pending,
          db, saved, batch, tab, callers, op>>

----------------------------------------------------------------------------
(* Bounds of the model *)

MaxTime == 2

\* Ticks of the clock after start-up in the rate limiter's specification
MaxClock == 5

\* The budgets of the rate limiter, scaled down from 30 calls / 60 s
\* (coingecko) and 2000 calls / 3600 s (yahoo, yahoo_stock)
LimitCoingecko == 2
WindowCoingecko == 2
LimitYahoo == 3
WindowYahoo == 3

\* Ticks of the clock after start-up in the fetchers' specification
MaxFetchClock == 2

\* Bars in a price series returned by the upstream to a fetch
FetchBars == 2

----------------------------------------------------------------------------
(* Values *)

None == [kind |-> "none"]

\* The one element of a set of one element
Only(S) == CHOOSE x \in S : TRUE

\* Payloads handed to set(): JSON objects with string keys, and a dict whose
\* keys are tuples (the columns of a two-level DataFrame).
Payloads ==
    { [kind |-> "dict", keys |-> "str", v |-> 1],
      [kind |-> "dict", keys |-> "str", v |-> 2],
      [kind |-> "dict", keys |-> "tuple", v |-> 1] }

Stores == {"crypto", "stocks"}

\* The rate limited upstreams: 'coingecko' and 'yahoo' of CacheManager,
\* 'yahoo_stock' of StockCacheManager
Apis == {"coingecko", "yahoo", "yahoo_stock"}

\* Cache keys as sequences of pieces; "/" is the path separator.
TestKeys == { <<"a", "/", "b">>, <<"a", "_", "b">> }

Ttls == 0 .. MaxTime

Symbols == {"AAPL", "MSFT"}
Tickers == {"BTC-USD", "ETH-USD"}
Periods == {"6mo"}
Intervals == {"1h", "1d"}

\* period_map of screen_cryptocurrency: the period fetched for a timeframe
PeriodMap(timeframe) ==
    CASE timeframe = "15m" -> "7d"
      [] timeframe = "1h" -> "60d"
      [] timeframe = "4h" -> "120d"
      [] timeframe = "1d" -> "2y"
      [] timeframe = "1W" -> "5y"
      [] OTHER -> "60d"

\* f"stock_data_{symbol}_{period}_{interval}"
StockDataKey(symbol, period, interval) ==
    <<"stock_data_", symbol, "_", period, "_", interval>>

\* f"stock_info_{symbol}"
StockInfoKey(symbol) == <<"stock_info_", symbol>>

\* f"yahoo_{symbol}_{period}_{interval}"
YahooKey(symbol, period, interval) ==
    <<"yahoo_", symbol, "_", period, "_", interval>>

----------------------------------------------------------------------------
(* The cache store: CacheManager and StockCacheManager *)

\* key.replace('/', '_'), joined to the cache directory by the caller
GetCachePath(key) ==
    [i \in DOMAIN key |-> IF key[i] = "/" THEN "_" ELSE key[i]]

TestPaths == { GetCachePath(k) : k \in TestKeys }

\* files[store] maps the path of each file in the store's directory to its
\* content; NoFile stands for a path at which os.path.exists is false
NoFile == [kind |-> "nofile"]
NoFiles == [s \in Stores |-> << >>]

FileAt(fs, store, p) ==
    IF p \in DOMAIN fs[store] THEN fs[store][p] ELSE NoFile

\* The directory after open(path, 'w') and the writes that got through
PutFile(fs, store, p, f) ==
    [fs EXCEPT ![store] =
        [q \in (DOMAIN fs[store]) \cup {p} |-> IF q = p THEN f ELSE fs[store][q]]]

NoBatch == [pc |-> "idle"]

\* The threads of the process that call the limiters: the sessions of the
\* app share cache_manager and stock_cache
Threads == {"t1", "t2"}

\* No thread is inside check_rate_limit, no call has been granted, and no
\* upstream call has been issued
NoCallers ==
    [at |-> [t \in Threads |-> [pc |-> "idle"]],
     granted |-> [a \in {"coingecko", "yahoo", "yahoo_stock"} |-> 0],
     issued |-> [a \in {"coingecko", "yahoo", "yahoo_stock"} |-> <<>>]]

\* datetime.isoformat() and datetime.fromisoformat()
IsoFormat(t) == <<"iso", t>>
IsIso(s) == s[1] = "iso"
FromIsoFormat(s) == s[2]

\* A file as json.load sees it: whether it parses, and the fields of the
\* object it holds.
JsonFile(hasTs, ts, hasData, data) ==
    [kind |-> "file", parses |-> TRUE, hasTs |-> hasTs, ts |-> ts,
     hasData |-> hasData, data |-> data]

Truncated ==
    [kind |-> "file", parses |-> FALSE, hasTs |-> FALSE, ts |-> <<"none", 0>>,
     hasData |-> FALSE, data |-> None]

\* json.dump raises TypeError on a dict with tuple keys
JsonSerializable(data) == data.kind # "dict" \/ data.keys = "str"

\* _is_expired raises ValueError when the timestamp is no ISO string
IsExpiredRaises(f) == f.hasTs /\ ~IsIso(f.ts)

\* _is_expired with >= in place of >
IsExpiredAtTtl(f, ttl, t) ==
    IF ~f.hasTs THEN TRUE
    ELSE (t - FromIsoFormat(f.ts)) >= ttl

IsExpired(f, ttl, t) ==
    IF ~f.hasTs THEN TRUE
    ELSE (t - FromIsoFormat(f.ts)) > ttl

Absent == [raised |-> FALSE, value |-> None]

\* get(key, ttl_seconds) on the files fs at clock t
CacheGet(fs, store, key, ttl, t) ==
    LET f == FileAt(fs, store, GetCachePath(key)) IN
    IF f.kind = "nofile" THEN Absent
    ELSE IF ~f.parses THEN Absent
    ELSE IF IsExpiredRaises(f) THEN [raised |-> TRUE, value |-> None]
    ELSE IF ~IsExpired(f, ttl, t)
         THEN IF f.hasData THEN [raised |-> FALSE, value |-> f.data]
              ELSE Absent
         ELSE Absent

\* CacheSet that keeps an existing file instead of overwriting it
CacheSetKeepsOld(fs, dirOk, store, key, data, t) ==
    LET p == GetCachePath(key) IN
    IF ~dirOk \/ FileAt(fs, store, p).kind = "file" THEN fs
    ELSE IF JsonSerializable(data)
         THEN PutFile(fs, store, p, JsonFile(TRUE, IsoFormat(t), TRUE, data))
         ELSE PutFile(fs, store, p, Truncated)

\* set(key, data): open(path, 'w') truncates the file, json.dump writes the
\* object; an error (directory missing, TypeError) is printed and swallowed.
CacheSet(fs, dirOk, store, key, data, t) ==
    LET p == GetCachePath(key) IN
    IF ~dirOk THEN fs
    ELSE IF JsonSerializable(data)
         THEN PutFile(fs, store, p, JsonFile(TRUE, IsoFormat(t), TRUE, data))
         ELSE PutFile(fs, store, p, Truncated)

DirOk(store) == IF store = "stocks" THEN stockDir ELSE TRUE

NoneWritten == [s \in Stores |-> [p \in TestPaths |-> None]]

WellFormed(f) ==
    f.kind = "file" /\ f.parses /\ f.hasTs /\ IsIso(f.ts) /\ f.hasData

Set ==
    \E s \in Stores, k \in TestKeys, d \in Payloads :
        LET p == GetCachePath(k)
            f == FileAt(files, s, p)
        IN  /\ files' = CacheSet(files, DirOk(s), s, k, d, now)
            /\ written' = [written EXCEPT ![s][p] =
                              [kind |-> "set", data |-> d, at |-> now,
                               dirOk |-> DirOk(s),
                               over |-> WellFormed(f) /\ f.data # d]]
            /\ missed' = [missed EXCEPT ![s][p] = None]
            /\ op' = [name |-> "set"]
            /\ UNCHANGED <<now, stockDir>>
            /\ UNCHANGED <<tab, callers, rateVars, dbVars>>

\* get() that removes the entry it finds expired
GetDeleting ==
    \E s \in Stores, k \in TestKeys, ttl \in Ttls :
        LET r == CacheGet(files, s, k, ttl, now)
            f == FileAt(files, s, GetCachePath(k))
            old == WellFormed(f) /\ IsExpired(f, ttl, now)
        IN  /\ op' = [name |-> "get", store |-> s, key |-> k, ttl |-> ttl,
                      raised |-> r.raised, ret |-> r.value, file |-> f]
            /\ missed' = IF old
                         THEN [missed EXCEPT ![s][GetCachePath(k)] =
                                  [kind |-> "entry", ts |-> f.ts, data |-> f.data]]
                         ELSE missed
            /\ files' = IF old
                        THEN [files EXCEPT ![s] =
                                [q \in (DOMAIN files[s]) \ {GetCachePath(k)} |->
                                    files[s][q]]]
                        ELSE files
            /\ UNCHANGED <<now, stockDir, written>>
            /\ UNCHANGED <<tab, callers, rateVars, dbVars>>

Get ==
    \E s \in Stores, k \in TestKeys, ttl \in Ttls :
        LET r == CacheGet(files, s, k, ttl, now)
            f == FileAt(files, s, GetCachePath(k))
            old == WellFormed(f) /\ IsExpired(f, ttl, now)
        IN  /\ op' = [name |-> "get", store |-> s, key |-> k, ttl |-> ttl,
                      raised |-> r.raised, ret |-> r.value, file |-> f]
            /\ missed' = IF old
                         THEN [missed EXCEPT ![s][GetCachePath(k)] =
                                  [kind |-> "entry", ts |-> f.ts, data |-> f.data]]
                         ELSE missed
            /\ UNCHANGED <<now, files, stockDir, written>>
            /\ UNCHANGED <<tab, callers, rateVars, dbVars>>

\* clear_cache(): rmtree('.cache') removes the crypto files and, with them,
\* the directory .cache/stocks; only '.cache' is created again.
ClearCache ==
    /\ files' = NoFiles
    /\ stockDir' = FALSE
    /\ written' = NoneWritten
    /\ missed' = NoneWritten
    /\ op' = [name |-> "clear"]
    /\ UNCHANGED now
    /\ UNCHANGED <<tab, callers, rateVars, dbVars>>

\* StockCacheManager._ensure_cache_dir(), called by the cache panel
EnsureCacheDir ==
    /\ ~stockDir
    /\ stockDir' = TRUE
    /\ op' = [name |-> "ensure_dir"]
    /\ UNCHANGED <<now, files, written, missed>>
    /\ UNCHANGED <<tab, callers, rateVars, dbVars>>

\* The shapes of a malformed cache file
Malformed ==
    { Truncated,
      JsonFile(TRUE, IsoFormat(0), FALSE, None),
      JsonFile(FALSE, <<"none", 0>>, TRUE, CHOOSE d \in Payloads : d.keys = "str"),
      JsonFile(TRUE, <<"garbage", 0>>, TRUE, CHOOSE d \in Payloads : d.keys = "str") }

\* A cache file damaged outside the program
Corrupt ==
    \E s \in Stores, p \in TestPaths, f \in Malformed :
        /\ DirOk(s)
        /\ files' = PutFile(files, s, p, f)
        /\ written' = [written EXCEPT ![s][p] = None]
        /\ missed' = [missed EXCEPT ![s][p] = None]
        /\ op' = [name |-> "corrupt"]
        /\ UNCHANGED <<now, stockDir>>
        /\ UNCHANGED <<tab, callers, rateVars, dbVars>>

Tick ==
    /\ now < MaxTime
    /\ now' = now + 1
    /\ op' = [name |-> "tick"]
    /\ UNCHANGED <<files, stockDir, written, missed>>
    /\ UNCHANGED <<tab, callers, rateVars, dbVars>>

CacheInit ==
    /\ now = 0
    /\ files = NoFiles
    /\ stockDir = TRUE
    /\ written = NoneWritten
    /\ missed = NoneWritten
    /\ rate = [a \in Apis |-> [calls |-> 0, reset_time |-> 0]]
    /\ winCalls = [a \in Apis |-> 0]
    /\ pending = "none"
    /\ db = <<>>
    /\ saved = <<>>
    /\ batch = NoBatch
    /\ tab = "stocks"
    /\ callers = NoCallers
    /\ op = [name |-> "init"]

CacheNext == Set \/ Get \/ ClearCache \/ EnsureCacheDir \/ Corrupt \/ Tick

SpecCache == CacheInit /\ [][CacheNext]_vars

----------------------------------------------------------------------------
(* The rate limiter: check_rate_limit and wait_for_rate_limit *)

Limit(api) == IF api = "coingecko" THEN LimitCoingecko ELSE LimitYahoo
Window(api) == IF api = "coingecko" THEN WindowCoingecko ELSE WindowYahoo

\* The clock when the process starts: later than one window after the epoch,
\* as time.time() is.
StartTime == WindowYahoo + 1

\* rate_limits as the constructors leave it: reset_time is time.time() in
\* CacheManager and 0 in StockCacheManager
InitialRate(t) ==
    [a \in Apis |-> [calls |-> 0,
                     reset_time |-> IF a = "yahoo_stock" THEN 0 ELSE t]]

\* check_rate_limit with <= in place of < in the test against the limit
CheckRateLimitOffByOne(r, api, t) ==
    IF api \notin DOMAIN r THEN [rate |-> r, ok |-> TRUE]
    ELSE
      LET info == r[api]
          reset == (t - info.reset_time) > Window(api)
          calls0 == IF reset THEN 0 ELSE info.calls
          rt0 == IF reset THEN t ELSE info.reset_time
      IN  IF calls0 <= Limit(api)
          THEN [rate |-> [r EXCEPT ![api] = [calls |-> calls0 + 1, reset_time |-> rt0]],
                ok |-> TRUE]
          ELSE [rate |-> [r EXCEPT ![api] = [calls |-> calls0, reset_time |-> rt0]],
                ok |-> FALSE]

\* check_rate_limit(api_name) at clock t: the limiter after the call and the
\* value returned
CheckRateLimit(r, api, t) ==
    IF api \notin DOMAIN r THEN [rate |-> r, ok |-> TRUE]
    ELSE
      LET info == r[api]
          reset == (t - info.reset_time) > Window(api)
          calls0 == IF reset THEN 0 ELSE info.calls
          rt0 == IF reset THEN t ELSE info.reset_time
      IN  IF calls0 < Limit(api)
          THEN [rate |-> [r EXCEPT ![api] = [calls |-> calls0 + 1, reset_time |-> rt0]],
                ok |-> TRUE]
          ELSE [rate |-> [r EXCEPT ![api] = [calls |-> calls0, reset_time |-> rt0]],
                ok |-> FALSE]

\* wait_for_rate_limit(api_name) at clock t: the limiter and the clock when
\* it returns; time.sleep(wait_time) is the only wait
WaitForRateLimit(r, api, t) ==
    IF api \notin DOMAIN r THEN [rate |-> r, now |-> t]
    ELSE
      LET info == r[api]
          wait_time == Window(api) - (t - info.reset_time)
      IN  IF wait_time > 0
          THEN [rate |-> [r EXCEPT ![api] = [calls |-> 0, reset_time |-> t]],
                now |-> t + wait_time]
          ELSE [rate |-> r, now |-> t]

\* A caller runs check_rate_limit
Check ==
    \E api \in Apis \cup {"other"} :
        LET c == CheckRateLimit(rate, api, now)
            known == api \in Apis
            reset == known /\ c.rate[api].reset_time # rate[api].reset_time
        IN  /\ pending = "none"
            /\ now <= StartTime + MaxClock
            /\ rate' = c.rate
            /\ winCalls' = IF ~known THEN winCalls
                           ELSE [winCalls EXCEPT ![api] =
                                    IF reset THEN 1
                                    ELSE IF @ > Limit(api) THEN @ ELSE @ + 1]
            /\ pending' = IF c.ok THEN "none" ELSE api
            /\ op' = [name |-> "check", api |-> api, ret |-> c.ok,
                      before |-> IF known THEN rate[api]
                                 ELSE [calls |-> 0, reset_time |-> 0]]
            /\ UNCHANGED <<tab, callers, now, cacheVars, dbVars>>

\* The caller whose check returned False runs wait_for_rate_limit
Wait ==
    /\ pending # "none"
    /\ LET w == WaitForRateLimit(rate, pending, now)
       IN  /\ rate' = w.rate
           /\ now' = w.now
           /\ winCalls' = IF w.rate # rate
                          THEN [winCalls EXCEPT ![pending] = 0]
                          ELSE winCalls
           /\ op' = [name |-> "wait", api |-> pending, before |-> rate[pending],
                     called |-> now]
    /\ pending' = "none"
    /\ UNCHANGED <<tab, callers, cacheVars, dbVars>>

\* Time passes, also between a check and the wait that follows it
RateTick ==
    /\ now < StartTime + MaxClock
    /\ now' = now + 1
    /\ op' = [name |-> "tick"]
    /\ UNCHANGED <<tab, callers, cacheVars, rateVars, dbVars>>

\* The state after start-up: empty caches and tables, fresh limiters
StartUp ==
    /\ now = StartTime
    /\ files = NoFiles
    /\ stockDir = TRUE
    /\ written = NoneWritten
    /\ missed = NoneWritten
    /\ rate = InitialRate(StartTime)
    /\ winCalls = [a \in Apis |-> 0]
    /\ pending = "none"
    /\ db = <<>>
    /\ saved = <<>>
    /\ batch = NoBatch
    /\ callers = NoCallers
    /\ op = [name |-> "init"]

RateInit == StartUp /\ tab = "stocks"

RateNext == Check \/ Wait \/ RateTick

SpecRate == RateInit /\ [][RateNext]_vars

----------------------------------------------------------------------------
(* check_rate_limit run by several threads; the code takes no lock, so the *)
(* statements of two calls interleave                                      *)

\* Calls granted in one window after which no thread enters
MaxGranted == 4

\* Ticks of the clock after start-up in the threads' specification
MaxThreadClock == 1

\* The limiters the threads call
ThreadApis == {"coingecko", "yahoo_stock"}

\* limit_info = self.rate_limits[api_name]; current_time = time.time()
ThreadEnter(t) ==
    \E api \in ThreadApis :
        /\ callers.at[t].pc = "idle"
        /\ callers.granted[api] < MaxGranted
        /\ callers' = [callers EXCEPT
                         !.at[t] = [pc |-> "reset", api |-> api,
                                    current_time |-> now]]
        /\ op' = [name |-> "enter", thread |-> t, api |-> api]
        /\ UNCHANGED <<tab, now, cacheVars, rateVars, dbVars>>

\* if current_time - limit_info['reset_time'] > limit_info['window']:
\* calls = 0, reset_time = current_time
ThreadReset(t) ==
    LET c == callers.at[t] IN
    /\ c.pc = "reset"
    /\ IF c.current_time - rate[c.api].reset_time > Window(c.api)
       THEN /\ rate' = [rate EXCEPT ![c.api] =
                           [calls |-> 0, reset_time |-> c.current_time]]
            /\ callers' = [callers EXCEPT !.at[t].pc = "test",
                                          !.granted[c.api] = 0]
       ELSE /\ rate' = rate
            /\ callers' = [callers EXCEPT !.at[t].pc = "test"]
    /\ op' = [name |-> "reset", thread |-> t, api |-> c.api]
    /\ UNCHANGED <<tab, now, cacheVars, winCalls, pending, dbVars>>

\* if limit_info['calls'] < limit_info['limit']: ... else return False
ThreadTest(t) ==
    LET c == callers.at[t] IN
    /\ c.pc = "test"
    /\ IF rate[c.api].calls < Limit(c.api)
       THEN /\ callers' = [callers EXCEPT !.at[t].pc = "load"]
            /\ op' = [name |-> "test", thread |-> t, api |-> c.api]
       ELSE /\ callers' = [callers EXCEPT !.at[t] = [pc |-> "idle"]]
            /\ op' = [name |-> "thread_check", thread |-> t, api |-> c.api,
                      ret |-> FALSE]
    /\ UNCHANGED <<tab, now, cacheVars, rateVars, dbVars>>

\* limit_info['calls'] += 1: the value is read
ThreadLoad(t) ==
    LET c == callers.at[t] IN
    /\ c.pc = "load"
    /\ callers' = [callers EXCEPT
                     !.at[t] = [c EXCEPT !.pc = "store"]
                               @@ [calls |-> rate[c.api].calls]]
    /\ op' = [name |-> "load", thread |-> t, api |-> c.api]
    /\ UNCHANGED <<tab, now, cacheVars, rateVars, dbVars>>

\* limit_info['calls'] += 1: the sum is written; return True
ThreadStore(t) ==
    LET c == callers.at[t] IN
    /\ c.pc = "store"
    /\ rate' = [rate EXCEPT ![c.api].calls = c.calls + 1]
    /\ callers' = [callers EXCEPT !.at[t] = [pc |-> "idle"],
                                  !.granted[c.api] = @ + 1]
    /\ op' = [name |-> "thread_check", thread |-> t, api |-> c.api, ret |-> TRUE]
    /\ UNCHANGED <<tab, now, cacheVars, winCalls, pending, dbVars>>

ThreadTick ==
    /\ now < StartTime + MaxThreadClock
    /\ now' = now + 1
    /\ op' = [name |-> "tick"]
    /\ UNCHANGED <<tab, callers, cacheVars, rateVars, dbVars>>

ThreadsNext ==
    \/ \E t \in Threads :
          \/ ThreadEnter(t) \/ ThreadReset(t) \/ ThreadTest(t)
          \/ ThreadLoad(t) \/ ThreadStore(t)
    \/ ThreadTick

SpecThreads == RateInit /\ [][ThreadsNext]_vars

----------------------------------------------------------------------------
(* The price history fetchers: fetch_stock_data and get_crypto_price *)

\* ttl_map.get(interval, 3600): the TTLs in their order, 3600 s, 14400 s,
\* 86400 s and 604800 s scaled to 1, 2, 4 and 5 ticks; the 900 s of '15m'
\* are rounded up to one tick
TtlMap(interval) ==
    CASE interval = "15m" -> 1
      [] interval = "1h" -> 1
      [] interval = "4h" -> 2
      [] interval = "1d" -> 4
      [] interval = "1W" -> 5
      [] OTHER -> 1

\* What the program reads and writes: clock, cache files, limiter, table
World == [now |-> now, files |-> files, stockDir |-> stockDir,
          rate |-> rate, db |-> db]

\* The prices of a series, by what the indicators make of them
Trends == {"rising", "falling"}

\* A response of the upstream: an exception, an empty frame, or a frame of
\* n bars with prices px whose columns are flat or two-level (a MultiIndex)
UpError == [kind |-> "error"]
UpEmpty == [kind |-> "empty"]
UpFrame(n, cols, px) == [kind |-> "frame", n |-> n, cols |-> cols, px |-> px]
NoCall == [kind |-> "nocall"]

\* A DataFrame held by the program: where it came from, the requests its
\* bars were downloaded for, its length, its columns and its prices
Frame(from, symbol, srcs, n, cols, px) ==
    [kind |-> "frame", from |-> from, sym |-> symbol, srcs |-> srcs,
     n |-> n, cols |-> cols, px |-> px]

\* cache_data: one entry per column (the key is a tuple for a two-level
\* column) and, in fetch_stock_data, the index as 'Date'
ToCachePayload(symbol, period, interval, up) ==
    [kind |-> "dict", keys |-> IF up.cols = "multi" THEN "tuple" ELSE "str",
     sym |-> symbol, period |-> period, interval |-> interval, n |-> up.n,
     px |-> up.px]

\* pd.DataFrame(cached_data) succeeds on a dict of columns
FrameConverts(payload) == payload.kind = "dict"

FrameFromCache(payload) ==
    Frame("cache", payload.sym, {<<payload.period, payload.interval>>},
          payload.n, "flat", payload.px)

\* load_stock_data(symbol): SELECT * FROM stock_data WHERE symbol = ...
LoadStockData(table, symbol) ==
    SelectSeq(table, LAMBDA row : row.symbol = symbol)

FrameFromDb(symbol, rows) ==
    Frame("db", symbol,
          { <<rows[i].period, rows[i].interval>> : i \in DOMAIN rows },
          Len(rows), "flat", rows[Len(rows)].px)

\* The rows to_sql appends for a frame: one per bar, dated by strftime
NewRows(symbol, period, interval, up) ==
    [i \in 1 .. up.n |->
        [symbol |-> symbol, date |-> <<interval, i>>,
         period |-> period, interval |-> interval, px |-> up.px]]

\* save_stock_data(symbol, data): to_sql(if_exists='append'); the table's
\* UNIQUE(symbol, date) makes the insert raise on a duplicate bar
SaveStockData(table, symbol, period, interval, up) ==
    LET new == NewRows(symbol, period, interval, up)
        dup == \E i \in DOMAIN new, j \in DOMAIN table :
                  /\ table[j].symbol = new[i].symbol
                  /\ table[j].date = new[i].date
    IN  IF dup THEN [raised |-> TRUE, db |-> table]
        ELSE [raised |-> FALSE, db |-> table \o new]

\* if not check_rate_limit(): wait_for_rate_limit()
Throttle(w, api) ==
    LET c == CheckRateLimit(w.rate, api, w.now) IN
    IF c.ok THEN [w EXCEPT !.rate = c.rate]
    ELSE LET wt == WaitForRateLimit(c.rate, api, w.now)
         IN  [w EXCEPT !.rate = wt.rate, !.now = wt.now]

Result(w, ret, raised, called) ==
    [w |-> w, ret |-> ret, raised |-> raised, called |-> called]

\* fetch_stock_data from the rate limit check on, the table not being read
FetchStockDataMissNoFallback(w, symbol, period, interval, up) ==
    Only({IF up.kind # "frame" THEN Result(w1, None, FALSE, TRUE)
          ELSE Only({Only({IF sv.raised THEN Result(w2, None, FALSE, TRUE)
                           ELSE Result([w2 EXCEPT !.db = sv.db],
                                       Frame("live", symbol,
                                             {<<period, interval>>}, up.n,
                                             up.cols, up.px),
                                       FALSE, TRUE) :
                             sv \in {SaveStockData(w2.db, symbol, period,
                                                   interval, up)}}) :
                       w2 \in {[w1 EXCEPT !.files =
                                  CacheSet(w1.files, w1.stockDir, "stocks",
                                           StockDataKey(symbol, period,
                                                        interval),
                                           ToCachePayload(symbol, period,
                                                          interval, up),
                                           w1.now)]}}) :
            w1 \in {Throttle(w, "yahoo_stock")}})

\* fetch_stock_data from "Fallback to database cache" on
FetchStockDataMiss(w, symbol, period, interval, up) ==
    LET rows == LoadStockData(w.db, symbol) IN
    IF rows # <<>> THEN Result(w, FrameFromDb(symbol, rows), FALSE, FALSE)
    ELSE
      LET w1 == Throttle(w, "yahoo_stock") IN
      IF up.kind # "frame" THEN Result(w1, None, FALSE, TRUE)
      ELSE
        LET key == StockDataKey(symbol, period, interval)
            w2 == [w1 EXCEPT !.files =
                      CacheSet(w1.files, w1.stockDir, "stocks", key,
                               ToCachePayload(symbol, period, interval, up),
                               w1.now)]
            sv == SaveStockData(w2.db, symbol, period, interval, up)
        IN  IF sv.raised THEN Result(w2, None, FALSE, TRUE)
            ELSE Result([w2 EXCEPT !.db = sv.db],
                        Frame("live", symbol, {<<period, interval>>}, up.n, up.cols,
                              up.px),
                        FALSE, TRUE)

\* fetch_stock_data that takes its rate limit token before looking in the cache
FetchStockDataThrottleFirst(w, symbol, period, interval, up) ==
    LET w0 == Throttle(w, "yahoo_stock")
        g == CacheGet(w0.files, "stocks", StockDataKey(symbol, period, interval),
                      TtlMap(interval), w0.now)
    IN  IF g.raised THEN Result(w0, None, TRUE, FALSE)
        ELSE IF g.value # None /\ FrameConverts(g.value)
             THEN Result(w0, FrameFromCache(g.value), FALSE, FALSE)
             ELSE FetchStockDataMiss(w, symbol, period, interval, up)

\* fetch_stock_data(symbol, period, interval), the upstream answering `up`
\* if it is called
FetchStockData(w, symbol, period, interval, up) ==
    LET g == CacheGet(w.files, "stocks", StockDataKey(symbol, period, interval),
                      TtlMap(interval), w.now)
    IN  IF g.raised THEN Result(w, None, TRUE, FALSE)
        ELSE IF g.value # None /\ FrameConverts(g.value)
             THEN Result(w, FrameFromCache(g.value), FALSE, FALSE)
             ELSE FetchStockDataMiss(w, symbol, period, interval, up)

\* get_crypto_price(symbol, period, interval); ticker.history returns flat
\* columns, and the cached columns do not include the index
GetCryptoPrice(w, symbol, period, interval, up) ==
    LET key == YahooKey(symbol, period, interval)
        g == CacheGet(w.files, "crypto", key, TtlMap(interval), w.now)
    IN  IF g.raised THEN Result(w, None, TRUE, FALSE)
        ELSE IF g.value # None /\ FrameConverts(g.value)
             THEN Result(w, FrameFromCache(g.value), FALSE, FALSE)
             ELSE
               LET w1 == Throttle(w, "yahoo") IN
               IF up.kind # "frame" THEN Result(w1, None, FALSE, TRUE)
               ELSE Result([w1 EXCEPT !.files =
                               CacheSet(w1.files, TRUE, "crypto", key,
                                        ToCachePayload(symbol, period, interval, up),
                                        w1.now)],
                           Frame("live", symbol, {<<period, interval>>}, up.n, up.cols,
                              up.px),
                           FALSE, TRUE)

\* The world after an operation becomes the state
Becomes(w) ==
    /\ now' = w.now
    /\ files' = w.files
    /\ stockDir' = w.stockDir
    /\ rate' = w.rate
    /\ db' = w.db

FetchSymbols == {"AAPL"}
FetchTickers == {"BTC-USD"}
FetchTimeframes == {"1h"}

StockResponses ==
    {UpError, UpEmpty, UpFrame(FetchBars, "flat", "rising"),
     UpFrame(FetchBars, "multi", "rising")}
CryptoResponses == {UpError, UpEmpty, UpFrame(FetchBars, "flat", "rising")}

FetchInTime == now <= StartTime + MaxFetchClock

FetchStock ==
    \E y \in FetchSymbols, p \in Periods, i \in Intervals, up \in StockResponses :
        LET r == FetchStockData(World, y, p, i, up) IN
        /\ FetchInTime
        /\ Becomes(r.w)
        /\ op' = [name |-> "fetch_stock", sym |-> y, period |-> p,
                  interval |-> i, called |-> r.called,
                  up |-> IF r.called THEN up ELSE NoCall,
                  ret |-> r.ret, raised |-> r.raised]
        /\ UNCHANGED <<tab, callers, written, missed, winCalls, pending, saved, batch>>

FetchCrypto ==
    \E y \in FetchTickers, i \in FetchTimeframes, up \in CryptoResponses :
        LET r == GetCryptoPrice(World, y, PeriodMap(i), i, up) IN
        /\ FetchInTime
        /\ Becomes(r.w)
        /\ op' = [name |-> "fetch_crypto", sym |-> y, period |-> PeriodMap(i),
                  interval |-> i, called |-> r.called,
                  up |-> IF r.called THEN up ELSE NoCall,
                  ret |-> r.ret, raised |-> r.raised]
        /\ UNCHANGED <<tab, callers, written, missed, winCalls, pending, saved, batch>>

\* clear_stock_data(): DELETE FROM stock_data
ClearStockData ==
    /\ db # <<>>
    /\ db' = <<>>
    /\ op' = [name |-> "clear_stock_data"]
    /\ UNCHANGED <<tab, callers, now, cacheVars, rateVars, saved, batch>>

FetchTick ==
    /\ now < StartTime + MaxFetchClock
    /\ now' = now + 1
    /\ op' = [name |-> "tick"]
    /\ UNCHANGED <<tab, callers, cacheVars, rateVars, dbVars>>

FetchNext ==
    FetchStock \/ FetchCrypto \/ ClearStockData \/ ClearCache
    \/ EnsureCacheDir \/ FetchTick

SpecFetch == RateInit /\ [][FetchNext]_vars

----------------------------------------------------------------------------
(* The callers' protocol on its own: check_rate_limit, wait_for_rate_limit *)
(* if it returned False, then the upstream call                            *)

\* Upstream calls to one api after which no further call is made
MaxIssued == 5

\* Ticks of the clock after start-up in the protocol's specification
MaxProtocolClock == 3

\* A fetcher that missed its cache follows the protocol and calls the
\* upstream; callers.issued[api] is the time of each call
ProtocolCall ==
    /\ now <= StartTime + MaxProtocolClock
    /\ \E api \in ThreadApis :
        /\ Len(callers.issued[api]) < MaxIssued
        /\ \E w \in {Throttle(World, api)} :
              /\ Becomes(w)
              /\ callers' = [callers EXCEPT !.issued[api] = Append(@, w.now)]
              /\ op' = [name |-> "upstream_call", api |-> api, at |-> w.now,
                        waited |-> w.now - now]
    /\ UNCHANGED <<tab, written, missed, winCalls, pending, saved, batch>>

ProtocolTick ==
    /\ now < StartTime + MaxProtocolClock
    /\ now' = now + 1
    /\ op' = [name |-> "tick"]
    /\ UNCHANGED <<tab, callers, cacheVars, rateVars, dbVars>>

ProtocolNext == ProtocolCall \/ ProtocolTick

SpecProtocol == RateInit /\ [][ProtocolNext]_vars

----------------------------------------------------------------------------
(* The screeners: screen_stocks and screen_multiple_cryptocurrencies *)

\* len(data) > 20
MinBars == 20
\* calculate_stoch_rsi(..., rsi_period=14, stoch_period=14, ...)
RsiPeriod == 14
StochPeriod == 14
\* The defaults of screen_stocks
MomentumDays == 7
MinVolume == 1000000
MinMarketCap == 1000000000

\* get_stock_info caches for 21600 s, between the TTLs of '4h' and '1d'
InfoTtl == TtlMap("4h") + 1
\* market caps are cached for 300 s, rounded up to one tick
MarketCapTtl == TtlMap("15m")

\* get_crypto_symbols(): screener symbol -> Yahoo ticker and CoinGecko id
CryptoMap ==
    [c \in {"BTC", "ETH"} |->
        IF c = "BTC" THEN [symbol |-> "BTC-USD", coingecko_id |-> "bitcoin"]
        ELSE [symbol |-> "ETH-USD", coingecko_id |-> "ethereum"]]

MarketCapKey(cid) == <<"market_cap_", cid>>

\* A number as a JSON payload
Num(v) == [kind |-> "num", v |-> v]

\* stock.info as the upstream returns it
UpInfo(cap, vol) == [kind |-> "info", marketCap |-> cap, averageVolume |-> vol]

\* The response of the simple/price endpoint: status 200 and the market caps
\* of some ids, or a failure
UpCaps(caps) == [kind |-> "caps", caps |-> caps]

StockInfo(symbol, cap, vol) ==
    [kind |-> "dict", keys |-> "str", symbol |-> symbol,
     market_cap |-> cap, avg_volume |-> vol]

\* get_stock_info(symbol): the result of a failed lookup is cached as well
GetStockInfo(w, symbol, up) ==
    LET key == StockInfoKey(symbol)
        g == CacheGet(w.files, "stocks", key, InfoTtl, w.now)
    IN  IF g.raised THEN Result(w, None, TRUE, FALSE)
        ELSE IF g.value # None THEN Result(w, g.value, FALSE, FALSE)
        ELSE
          LET w1 == Throttle(w, "yahoo_stock")
              result == IF up.kind = "info"
                        THEN StockInfo(symbol, up.marketCap, up.averageVolume)
                        ELSE StockInfo(symbol, 0, 0)
          IN  Result([w1 EXCEPT !.files =
                         CacheSet(w1.files, w1.stockDir, "stocks", key,
                                  result, w1.now)],
                     result, FALSE, TRUE)

\* calculate_stoch_rsi returns no series for fewer than rsi_period +
\* stoch_period prices, and calculate_indicators then adds no STOCH columns
HasStochColumns(data) == data.n >= RsiPeriod + StochPeriod

\* total_candles of screen_stocks
TotalCandles(interval, days) ==
    CASE interval = "1W" -> 2
      [] interval = "1d" -> days
      [] interval = "4h" -> days * 6
      [] interval = "1h" -> days * 24
      [] OTHER -> days

\* get_candles_per_period(timeframe, days)
GetCandlesPerPeriod(timeframe, days) ==
    CASE timeframe = "15m" -> days * 24 * 4
      [] timeframe = "1h" -> days * 24
      [] timeframe = "4h" -> days * 6
      [] timeframe = "1d" -> days
      [] timeframe = "1W" -> IF days \div 7 > 1 THEN days \div 7 ELSE 1
      [] OTHER -> days

\* The rolling means of RSI and SMA have their first value at index
\* period - 1, so the window before the last t bars has a mean only if it
\* reaches that index
PrevWindowDefined(n, t) == n - t >= RsiPeriod

\* rsi_momentum and sma_momentum of screen_stocks: a comparison with an
\* undefined mean is False
StockMomentum(data, interval, days) ==
    LET t == TotalCandles(interval, days) IN
    /\ data.n >= t
    /\ interval = "1W" \/ PrevWindowDefined(data.n, t)
    /\ data.px = "rising"

\* latest_rsi < rsi_threshold, and latest_close > latest_sma
LatestRsiLow(data) == data.px = "falling"
CloseAboveSma(data) == data.px = "rising"

Condition(criteria, data, interval, days) ==
    CASE criteria = "rsi_only" -> LatestRsiLow(data)
      [] criteria = "trend_naik" -> LatestRsiLow(data) /\ CloseAboveSma(data)
      [] criteria = "rsi_momentum" -> StockMomentum(data, interval, days)
      [] OTHER -> FALSE

\* A float that is not a number
NaN == [kind |-> "nan"]

\* current_rsi_avg - prev_rsi_avg and current_sma_avg - prev_sma_avg of a
\* row, by their sign: both averages are the latest value when the series is
\* shorter than the window
MomentumDiff(data, interval, days) ==
    LET t == TotalCandles(interval, days) IN
    IF data.n < t THEN Num(0)
    ELSE IF ~(interval = "1W" \/ PrevWindowDefined(data.n, t)) THEN NaN
    ELSE Num(IF data.px = "rising" THEN 1 ELSE -1)

\* The series of the model have no oversold and no overbought area, so
\* stoch_signal is HOLD and stoch_score is 0
StockRow(symbol, interval, days, info, data) ==
    [symbol |-> symbol, timeframe |-> interval, from |-> data.from,
     avg_volume |-> info.avg_volume, market_cap |-> info.market_cap,
     px |-> data.px, n |-> data.n,
     rsi_momentum |-> MomentumDiff(data, interval, days),
     sma_momentum |-> MomentumDiff(data, interval, days),
     stoch_score |-> 0]

\* What one pass of a loop leaves: the world, the row it adds (or None), and
\* whether an exception left the loop
Pass(w, row, raised, calls) ==
    [w |-> w, row |-> row, raised |-> raised, calls |-> calls]

\* A pass together with what it got: the info, the series (None when it got
\* none), and whether it called the upstream
Seen(pass, info, data, called) ==
    pass @@ [info |-> info, data |-> data, called |-> called]

\* The loop body after fetch_stock_data returned fd, get_stock_info having
\* returned gi
ScreenFetched(fd, gi, symbol, interval, criteria, days) ==
    Seen(IF fd.raised THEN Pass(fd.w, None, TRUE, <<"info", "fetch">>)
         ELSE IF fd.ret = None \/ fd.ret.n <= MinBars
         THEN Pass(fd.w, None, FALSE, <<"info", "fetch">>)
         \* data['STOCH_AVG'] raises KeyError when the column was not added
         ELSE IF ~HasStochColumns(fd.ret)
         THEN Pass(fd.w, None, TRUE, <<"info", "fetch">>)
         ELSE IF Condition(criteria, fd.ret, interval, days)
         THEN Pass(fd.w, StockRow(symbol, interval, days, gi.ret, fd.ret),
                   FALSE, <<"info", "fetch">>)
         ELSE Pass(fd.w, None, FALSE, <<"info", "fetch">>),
         gi.ret, IF fd.raised THEN None ELSE fd.ret, gi.called \/ fd.called)

\* The loop body with the series fetched before the filter is applied
ScreenInformedFetchFirst(gi, symbol, interval, criteria, days, upData) ==
    IF gi.raised THEN Seen(Pass(gi.w, None, TRUE, <<>>), None, None, gi.called)
    ELSE Only({IF gi.ret.avg_volume < MinVolume
                  \/ gi.ret.market_cap < MinMarketCap
               THEN Seen(Pass(fd.w, None, FALSE, <<"info", "fetch">>), gi.ret,
                         None, gi.called \/ fd.called)
               ELSE ScreenFetched(fd, gi, symbol, interval, criteria, days) :
                 fd \in {FetchStockData(gi.w, symbol, "6mo", interval, upData)}})

\* The loop body after get_stock_info returned gi
ScreenInformed(gi, symbol, interval, criteria, days, upData) ==
    IF gi.raised THEN Seen(Pass(gi.w, None, TRUE, <<>>), None, None, gi.called)
    ELSE IF gi.ret.avg_volume < MinVolume \/ gi.ret.market_cap < MinMarketCap
    THEN Seen(Pass(gi.w, None, FALSE, <<"info">>), gi.ret, None, gi.called)
    ELSE Only({ScreenFetched(fd, gi, symbol, interval, criteria, days) :
                 fd \in {FetchStockData(gi.w, symbol, "6mo", interval, upData)}})

\* The body of screen_stocks' loop for one symbol
ScreenStock(w, symbol, interval, criteria, days, upInfo, upData) ==
    Only({ScreenInformed(gi, symbol, interval, criteria, days, upData) :
            gi \in {GetStockInfo(w, symbol, upInfo)}})

\* cache_manager.set of the market cap of each id of the list
RECURSIVE SetMarketCaps(_, _, _, _)
SetMarketCaps(fs, ids, caps, t) ==
    IF ids = <<>> THEN fs
    ELSE SetMarketCaps(
             CacheSet(fs, TRUE, "crypto", MarketCapKey(Head(ids)),
                      Num(IF Head(ids) \in DOMAIN caps THEN caps[Head(ids)]
                          ELSE 0),
                      t),
             Tail(ids), caps, t)

\* A lookup that finds no id in the cache
CachedIdsNone(w, ids) == {}

\* The ids whose cached_data is not None, and uncached_ids: the others in
\* the order of the list
CachedIds(w, ids) ==
    {ids[k] : k \in {j \in DOMAIN ids :
        LET g == CacheGet(w.files, "crypto", MarketCapKey(ids[j]),
                          MarketCapTtl, w.now)
        IN  ~g.raised /\ g.value # None}}

UncachedIds(w, ids) == SelectSeq(ids, LAMBDA c : c \notin CachedIds(w, ids))

\* get_multiple_crypto_market_caps(coingecko_ids); ret is the map returned
GetMultipleCryptoMarketCaps(w, ids, up) ==
    LET g == [k \in DOMAIN ids |->
                 CacheGet(w.files, "crypto", MarketCapKey(ids[k]),
                          MarketCapTtl, w.now)]
        hit == CachedIds(w, ids)
        cached == [c \in hit |->
                     g[CHOOSE k \in DOMAIN ids : ids[k] = c].value.v]
        uncached == UncachedIds(w, ids)
    IN  IF ids = <<>> THEN Result(w, << >>, FALSE, FALSE)
        ELSE IF \E k \in DOMAIN ids : g[k].raised
        THEN Result(w, None, TRUE, FALSE)
        ELSE IF uncached = <<>> THEN Result(w, cached, FALSE, FALSE)
        ELSE
          LET w1 == Throttle(w, "coingecko") IN
          IF up.kind # "caps" THEN Result(w1, cached, FALSE, TRUE)
          ELSE Result([w1 EXCEPT !.files =
                          SetMarketCaps(w1.files, uncached, up.caps, w1.now)],
                      [c \in hit \cup {uncached[k] : k \in DOMAIN uncached} |->
                          IF c \in hit THEN cached[c]
                          ELSE IF c \in DOMAIN up.caps THEN up.caps[c] ELSE 0],
                      FALSE, TRUE)

\* A single lookup that does not read the cache
GetCryptoMarketCapUncached(w, cid, up) ==
    Only({IF up.kind # "caps" THEN Result(w1, 0, FALSE, TRUE)
          ELSE Result([w1 EXCEPT !.files =
                          SetMarketCaps(w1.files, <<cid>>, up.caps, w1.now)],
                      IF cid \in DOMAIN up.caps THEN up.caps[cid] ELSE 0,
                      FALSE, TRUE) :
            w1 \in {Throttle(w, "coingecko")}})

\* get_crypto_market_cap(coingecko_id)
GetCryptoMarketCap(w, cid, up) ==
    LET g == CacheGet(w.files, "crypto", MarketCapKey(cid), MarketCapTtl, w.now)
    IN  IF g.raised THEN Result(w, None, TRUE, FALSE)
        ELSE IF g.value # None THEN Result(w, g.value.v, FALSE, FALSE)
        ELSE
          LET w1 == Throttle(w, "coingecko") IN
          IF up.kind # "caps" THEN Result(w1, 0, FALSE, TRUE)
          ELSE Result([w1 EXCEPT !.files =
                          SetMarketCaps(w1.files, <<cid>>, up.caps, w1.now)],
                      IF cid \in DOMAIN up.caps THEN up.caps[cid] ELSE 0,
                      FALSE, TRUE)

\* total_score of screen_cryptocurrency, by the prices of the series
Score(data) == IF data.px = "rising" THEN 1 ELSE -1

CryptoRow(crypto_symbol, timeframe, data, cap) ==
    [symbol |-> crypto_symbol, timeframe |-> timeframe, from |-> data.from,
     score |-> Score(data), market_cap |-> cap]

\* screen_cryptocurrency after get_crypto_price returned fd
CryptoFetched(fd, crypto_symbol, timeframe, days, caps, upCap) ==
    LET cid == CryptoMap[crypto_symbol].coingecko_id
        data == IF fd.raised THEN None ELSE fd.ret
    IN  IF fd.raised \/ fd.ret = None \/ fd.ret.n <= MinBars
        THEN Seen(Pass(fd.w, None, FALSE, <<"fetch">>), None, data, fd.called)
        \* data['stoch_avg'] raises KeyError, caught in the function
        ELSE IF ~HasStochColumns(fd.ret)
        THEN Seen(Pass(fd.w, None, FALSE, <<"fetch">>), None, data, fd.called)
        ELSE IF fd.ret.n < GetCandlesPerPeriod(timeframe, days) * 2
        THEN Seen(Pass(fd.w, None, FALSE, <<"fetch">>), None, data, fd.called)
        ELSE IF cid \in DOMAIN caps
        THEN Seen(Pass(fd.w, CryptoRow(crypto_symbol, timeframe, fd.ret,
                                       caps[cid]),
                       FALSE, <<"fetch">>), None, data, fd.called)
        ELSE Only({Seen(IF mc.raised
                        THEN Pass(mc.w, None, FALSE, <<"fetch", "cap">>)
                        ELSE Pass(mc.w,
                                  CryptoRow(crypto_symbol, timeframe, fd.ret,
                                            mc.ret),
                                  FALSE, <<"fetch", "cap">>),
                        None, data, fd.called \/ mc.called) :
                     mc \in {GetCryptoMarketCap(fd.w, cid, upCap)}})

\* screen_cryptocurrency(crypto_symbol, timeframe, momentum_days, ...,
\* market_caps_cache): every exception of its body ends in `return None`;
\* an empty market_caps_cache has no id in it
ScreenCryptocurrency(w, crypto_symbol, timeframe, days, caps, upData, upCap) ==
    IF crypto_symbol \notin DOMAIN CryptoMap
    THEN Seen(Pass(w, None, FALSE, <<>>), None, None, FALSE)
    ELSE Only({CryptoFetched(fd, crypto_symbol, timeframe, days, caps, upCap) :
                 fd \in {GetCryptoPrice(w, CryptoMap[crypto_symbol].symbol,
                                        PeriodMap(timeframe), timeframe,
                                        upData)}})

\* results.sort(key=lambda x: x['score'], reverse=True): stable
RECURSIVE SortByScore(_)
SortByScore(rows) ==
    IF rows = <<>> THEN <<>>
    ELSE LET top == CHOOSE i \in DOMAIN rows :
                       /\ \A j \in DOMAIN rows : rows[j].score <= rows[i].score
                       /\ \A j \in 1 .. i - 1 : rows[j].score < rows[i].score
         IN  <<rows[top]>> \o
             SortByScore([k \in 1 .. Len(rows) - 1 |->
                             IF k < top THEN rows[k] ELSE rows[k + 1]])

Least(a, b) == IF a < b THEN a ELSE b

\* profitability_score of the stock screening handler in units of 1/2000:
\* 0.5 * momentum_score + 0.25 * volume_score + 0.05 * market_cap_score
\* + 0.2 * stoch_score
ProfitabilityScore(row) ==
    IF row.rsi_momentum = NaN \/ row.sma_momentum = NaN THEN NaN
    ELSE Num(500 * (row.rsi_momentum.v + row.sma_momentum.v)
             + 50 * Least(row.avg_volume \div 1000000, 10)
             + Least(row.market_cap \div 1000000000, 100)
             + 400 * row.stoch_score)

\* The handler's table without the sort_values call
SortByProfitabilityInOrder(results) ==
    LET scored == SelectSeq(results, LAMBDA r : ProfitabilityScore(r) # NaN)
        rest == SelectSeq(results, LAMBDA r : ProfitabilityScore(r) = NaN)
        keyed == [k \in DOMAIN scored |->
                     [symbol |-> scored[k].symbol, scored |-> TRUE,
                      score |-> ProfitabilityScore(scored[k]).v]]
        last == [k \in DOMAIN rest |->
                    [symbol |-> rest[k].symbol, scored |-> FALSE, score |-> 0]]
    IN  keyed \o last

\* df.sort_values('profitability_score', ascending=False): rows without a
\* score (scored is FALSE, the score field is a filler) come last
SortByProfitability(results) ==
    LET scored == SelectSeq(results, LAMBDA r : ProfitabilityScore(r) # NaN)
        rest == SelectSeq(results, LAMBDA r : ProfitabilityScore(r) = NaN)
        keyed == [k \in DOMAIN scored |->
                     [symbol |-> scored[k].symbol, scored |-> TRUE,
                      score |-> ProfitabilityScore(scored[k]).v]]
        last == [k \in DOMAIN rest |->
                    [symbol |-> rest[k].symbol, scored |-> FALSE, score |-> 0]]
    IN  SortByScore(keyed) \o last

\* The rows INSERTed by save_screening_results(results)
SavedRows(results) ==
    [k \in DOMAIN results |->
        [symbol |-> results[k].symbol, timeframe |-> results[k].timeframe]]

\* A save that stops after the first row of the list
SaveScreeningResultsFirstRow(table, results) ==
    IF results = <<>> THEN table
    ELSE table \o SubSeq(SavedRows(results), 1, 1)

\* save_screening_results(results): nothing for an empty list, else one
\* INSERT per row and one commit; no column of the table is unique besides
\* id, so each INSERT OR REPLACE adds a row
SaveScreeningResults(table, results) ==
    IF results = <<>> THEN table
    ELSE table \o SavedRows(results)

\* Rows of screening_results after which no further batch is started
MaxSaved == 2

\* Ticks of the clock after start-up in the screeners' specification
MaxScreenClock == 1

StockLists == { <<"AAPL", "MSFT">>, <<"MSFT", "AAPL">> }
CryptoLists == { <<"BTC", "ETH">>, <<"ETH", "BTC">>, <<"XXX">> }
Criteria == {"rsi_only", "rsi_momentum", "other"}

\* momentum_days: the default, and a window longer than the series
ScreenDays == {MomentumDays, 5 * MomentumDays}
ScreenIntervals == {"1d"}

\* Series lengths around the two thresholds of the screeners
ScreenBarCounts == {MinBars, MinBars + 1, RsiPeriod + StochPeriod}

InfoResponses ==
    {UpError, UpInfo(MinMarketCap, MinVolume), UpInfo(MinMarketCap, MinVolume - 1)}
\* The prices matter only to a series long enough to be scored
ScreenFrames ==
    {UpFrame(n, "flat", "rising") : n \in ScreenBarCounts}
    \cup {UpFrame(RsiPeriod + StochPeriod, "flat", "falling")}
StockScreenResponses ==
    {UpError, UpEmpty, UpFrame(RsiPeriod + StochPeriod, "multi", "rising")}
    \cup ScreenFrames
\* The crypto screener is given a failure or a series of more than 20 bars
CryptoScreenResponses == {UpError} \cup {f \in ScreenFrames : f.n > MinBars}

\* What the upstream answers about a symbol: every outcome for the first
\* symbol, and for the others a liquid stock with a long rising series, or
\* a failure
InfoResponsesFor(symbol) ==
    IF symbol = "AAPL" THEN InfoResponses
    ELSE {UpError, UpInfo(MinMarketCap, 2 * MinVolume)}
StockResponsesFor(symbol) ==
    IF symbol = "AAPL" THEN StockScreenResponses
    ELSE {UpError, UpFrame(RsiPeriod + StochPeriod, "flat", "rising")}
CryptoResponsesFor(symbol) ==
    IF symbol = "BTC" THEN CryptoScreenResponses
    ELSE {UpError, UpFrame(RsiPeriod + StochPeriod, "flat", "falling")}
CapsResponses ==
    {UpError, UpCaps([c \in {"bitcoin", "ethereum"} |-> 2]),
     UpCaps([c \in {"bitcoin"} |-> 2])}

\* The answers to a request for the market cap of one id
CapsAnswers == {UpError, UpCaps([c \in {"bitcoin", "ethereum"} |-> 2])}

ScreenInTime == now <= StartTime + MaxScreenClock

\* The return or the exception of a screener
Returned(name, symbols, done, ret, raised) ==
    [name |-> name, symbols |-> symbols, done |-> done, ret |-> ret,
     raised |-> raised]

\* The tabs of the app
Tabs == {"stocks", "crypto"}

\* screen_stocks(symbols, interval, criteria, momentum_days) is called by
\* the button of the stocks tab
ScreenStocksBegin ==
    \E symbols \in StockLists, interval \in ScreenIntervals,
       criteria \in Criteria, days \in ScreenDays :
        /\ tab = "stocks"
        /\ batch.pc = "idle"
        /\ ScreenInTime
        /\ Len(saved) < MaxSaved
        /\ batch' = [pc |-> "stocks", symbols |-> symbols, i |-> 1,
                     results |-> <<>>, interval |-> interval,
                     criteria |-> criteria, days |-> days]
        /\ op' = [name |-> "begin"]
        /\ UNCHANGED <<tab, callers, now, cacheVars, rateVars, db, saved>>

\* What one pass of screen_stocks' loop did: the functions it called, the
\* info and the series it got, the row it added
StockPass(r, symbol, interval, criteria, days) ==
    [name |-> "pass", screener |-> "screen_stocks", calls |-> r.calls,
     symbol |-> symbol, interval |-> interval, criteria |-> criteria,
     days |-> days, info |-> r.info, data |-> r.data, row |-> r.row,
     raised |-> r.raised]

\* One pass of the loop of screen_stocks; an exception ends the call
ScreenStocksSymbol ==
    /\ batch.pc = "stocks"
    /\ batch.i <= Len(batch.symbols)
    /\ \E upInfo \in InfoResponsesFor(batch.symbols[batch.i]),
          upData \in StockResponsesFor(batch.symbols[batch.i]) :
        \E r \in {ScreenStock(World, batch.symbols[batch.i], batch.interval,
                               batch.criteria, batch.days, upInfo, upData)} :
          /\ Becomes(r.w)
          /\ IF r.raised
             THEN /\ batch' = NoBatch
                  /\ op' = Returned("screen_stocks", batch.symbols,
                                    batch.i - 1, None, TRUE)
                            @@ [pass |-> StockPass(r, batch.symbols[batch.i],
                                                   batch.interval,
                                                   batch.criteria, batch.days),
                                criteria |-> batch.criteria]
             ELSE /\ batch' = [batch EXCEPT
                                 !.i = @ + 1,
                                 !.results = IF r.row = None THEN @
                                             ELSE Append(@, r.row)]
                  /\ op' = StockPass(r, batch.symbols[batch.i],
                                     batch.interval, batch.criteria,
                                     batch.days)
    /\ UNCHANGED <<tab, callers, written, missed, winCalls, pending, saved>>

\* After the loop: save_screening_results(results) if there are any, return;
\* `shown` is the table the stock screening handler makes of the list
ScreenStocksEnd ==
    /\ batch.pc = "stocks"
    /\ batch.i > Len(batch.symbols)
    /\ saved' = SaveScreeningResults(saved, batch.results)
    /\ batch' = NoBatch
    /\ op' = Returned("screen_stocks", batch.symbols, Len(batch.symbols),
                      batch.results, FALSE)
             @@ [shown |-> SortByProfitability(batch.results),
                 criteria |-> batch.criteria]
    /\ UNCHANGED <<tab, callers, now, cacheVars, rateVars, db>>

\* screen_multiple_cryptocurrencies(crypto_symbols, timeframe) up to its loop
ScreenCryptoBegin ==
    /\ tab = "crypto"
    /\ batch.pc = "idle"
    /\ ScreenInTime
    /\ \E symbols \in CryptoLists, timeframe \in ScreenIntervals,
          days \in ScreenDays, up \in CapsResponses :
        \E valid \in {SelectSeq(symbols, LAMBDA c : c \in DOMAIN CryptoMap)} :
          IF valid = <<>>
          THEN /\ UNCHANGED <<now, files, stockDir, rate, db, batch>>
               /\ op' = Returned("screen_crypto", valid, 0, <<>>, FALSE)
          ELSE \E r \in {GetMultipleCryptoMarketCaps(
                            World,
                            [k \in DOMAIN valid |->
                               CryptoMap[valid[k]].coingecko_id],
                            up)} :
                 /\ Becomes(r.w)
                 /\ IF r.raised
                    THEN /\ batch' = NoBatch
                         /\ op' = Returned("screen_crypto", valid, 0, None,
                                           TRUE)
                    ELSE /\ batch' = [pc |-> "crypto", symbols |-> valid,
                                      i |-> 1, results |-> <<>>,
                                      timeframe |-> timeframe,
                                      days |-> days, caps |-> r.ret]
                         /\ op' = [name |-> "begin"]
    /\ UNCHANGED <<tab, callers, written, missed, winCalls, pending, saved>>

\* What one pass of screen_multiple_cryptocurrencies' loop did
CryptoPass(r, crypto_symbol, timeframe, days) ==
    [name |-> "pass", screener |-> "screen_crypto", calls |-> r.calls,
     symbol |-> crypto_symbol, interval |-> timeframe, days |-> days,
     data |-> r.data, row |-> r.row, raised |-> r.raised]

\* One pass of the loop: screen_cryptocurrency inside try/except
ScreenCryptoSymbol ==
    /\ batch.pc = "crypto"
    /\ batch.i <= Len(batch.symbols)
    /\ \E upData \in CryptoResponsesFor(batch.symbols[batch.i]),
          upCap \in CapsAnswers :
        \E r \in {ScreenCryptocurrency(World, batch.symbols[batch.i],
                                        batch.timeframe, batch.days,
                                        batch.caps, upData, upCap)} :
          /\ Becomes(r.w)
          /\ batch' = [batch EXCEPT
                         !.i = @ + 1,
                         !.results = IF r.row = None THEN @
                                     ELSE Append(@, r.row)]
          /\ op' = CryptoPass(r, batch.symbols[batch.i], batch.timeframe,
                              batch.days)
    /\ UNCHANGED <<tab, callers, written, missed, winCalls, pending, saved>>

\* After the loop: sort by score and return
ScreenCryptoEnd ==
    /\ batch.pc = "crypto"
    /\ batch.i > Len(batch.symbols)
    /\ batch' = NoBatch
    /\ op' = Returned("screen_crypto", batch.symbols, Len(batch.symbols),
                      SortByScore(batch.results), FALSE)
    /\ UNCHANGED <<tab, callers, now, cacheVars, rateVars, db, saved>>

\* The clock ticks between two calls; during a call time passes in
\* wait_for_rate_limit
ScreenTick ==
    /\ batch.pc = "idle"
    /\ now < StartTime + MaxScreenClock
    /\ now' = now + 1
    /\ op' = [name |-> "tick"]
    /\ UNCHANGED <<tab, callers, cacheVars, rateVars, dbVars>>

\* The stock screener and the crypto screener share no cache file, no
\* limiter budget and no table: a session is explored in one tab
ScreenInit == StartUp /\ tab \in Tabs

ScreenNext ==
    \/ ScreenStocksBegin \/ ScreenStocksSymbol \/ ScreenStocksEnd
    \/ ScreenCryptoBegin \/ ScreenCryptoSymbol \/ ScreenCryptoEnd
    \/ ScreenTick

SpecScreen == ScreenInit /\ [][ScreenNext]_vars

----------------------------------------------------------------------------
(* The stock info lookup on its own *)

\* Ticks of the clock after start-up in the info lookup's specification
MaxInfoClock == 4

\* get_stock_info(symbol) is called; `offered` is what the upstream answers
\* if it is asked
StockInfoLookup ==
    /\ now <= StartTime + MaxInfoClock
    /\ \E symbol \in Symbols, up \in InfoResponses :
        \E r \in {GetStockInfo(World, symbol, up)} :
          /\ Becomes(r.w)
          /\ op' = [name |-> "get_stock_info", symbol |-> symbol,
                    offered |-> up, called |-> r.called, ret |-> r.ret,
                    raised |-> r.raised]
    /\ UNCHANGED <<tab, callers, written, missed, winCalls, pending, saved,
                   batch>>

InfoTick ==
    /\ now < StartTime + MaxInfoClock
    /\ now' = now + 1
    /\ op' = [name |-> "tick"]
    /\ UNCHANGED <<tab, callers, cacheVars, rateVars, dbVars>>

InfoNext == StockInfoLookup \/ InfoTick

SpecInfo == RateInit /\ [][InfoNext]_vars

----------------------------------------------------------------------------
(* The market cap lookups on their own *)

\* Ticks of the clock after start-up in the market caps' specification
MaxCapsClock == 2

CapIds == {"bitcoin", "ethereum", "solana"}
IdLists ==
    { <<"bitcoin">>, <<"ethereum", "bitcoin">>,
      <<"bitcoin", "ethereum", "solana">> }

CapsInTime == now <= StartTime + MaxCapsClock

\* get_multiple_crypto_market_caps(ids) is called
Resolve ==
    \E ids \in IdLists, up \in CapsResponses :
        LET r == GetMultipleCryptoMarketCaps(World, ids, up) IN
        /\ CapsInTime
        /\ Becomes(r.w)
        /\ op' = [name |-> "resolve", ids |-> ids, called |-> r.called,
                  sent |-> IF r.called THEN UncachedIds(World, ids) ELSE <<>>,
                  up |-> IF r.called THEN up ELSE NoCall,
                  ret |-> r.ret, raised |-> r.raised]
        /\ UNCHANGED <<tab, callers, written, missed, winCalls, pending, saved, batch>>

\* get_crypto_market_cap(id) is called
MarketCap ==
    \E cid \in CapIds, up \in CapsResponses :
        LET r == GetCryptoMarketCap(World, cid, up) IN
        /\ CapsInTime
        /\ Becomes(r.w)
        /\ op' = [name |-> "market_cap", id |-> cid, called |-> r.called,
                  up |-> IF r.called THEN up ELSE NoCall,
                  ret |-> r.ret, raised |-> r.raised]
        /\ UNCHANGED <<tab, callers, written, missed, winCalls, pending, saved, batch>>

CapsTick ==
    /\ now < StartTime + MaxCapsClock
    /\ now' = now + 1
    /\ op' = [name |-> "tick"]
    /\ UNCHANGED <<tab, callers, cacheVars, rateVars, dbVars>>

CapsNext == Resolve \/ MarketCap \/ CapsTick

SpecCaps == RateInit /\ [][CapsNext]_vars

----------------------------------------------------------------------------
(* Whole screening calls, two in a row with the same parameters *)

\* What a call of a screener leaves: the world, the list returned (or None
\* when it raised), and whether it called the upstream
Call(w, ret, raised, called) ==
    [w |-> w, ret |-> ret, raised |-> raised, called |-> called]

\* The loop of screen_stocks from symbol k on, then its return; ups[k] is
\* what the upstream answers about symbol k if it is asked
RECURSIVE StocksLoop(_, _, _, _, _, _, _, _, _)
StocksLoop(w, symbols, k, interval, criteria, days, ups, results, called) ==
    IF k > Len(symbols) THEN Call(w, results, FALSE, called)
    ELSE Only({IF r.raised THEN Call(r.w, None, TRUE, called \/ r.called)
               ELSE StocksLoop(r.w, symbols, k + 1, interval, criteria, days,
                               ups,
                               IF r.row = None THEN results
                               ELSE Append(results, r.row),
                               called \/ r.called) :
                 r \in {ScreenStock(w, symbols[k], interval, criteria, days,
                                    ups[k].info, ups[k].data)}})

\* screen_stocks(symbols, interval, criteria, momentum_days)
ScreenStocks(w, symbols, interval, criteria, days, ups) ==
    StocksLoop(w, symbols, 1, interval, criteria, days, ups, <<>>, FALSE)

\* The loop of screen_multiple_cryptocurrencies from symbol k on, then the
\* sort and the return
RECURSIVE CryptoLoop(_, _, _, _, _, _, _, _, _)
CryptoLoop(w, symbols, k, timeframe, days, caps, ups, results, called) ==
    IF k > Len(symbols) THEN Call(w, SortByScore(results), FALSE, called)
    ELSE Only({CryptoLoop(r.w, symbols, k + 1, timeframe, days, caps, ups,
                          IF r.row = None THEN results
                          ELSE Append(results, r.row),
                          called \/ r.called) :
                 r \in {ScreenCryptocurrency(w, symbols[k], timeframe, days,
                                             caps, ups[k].data, ups[k].cap)}})

\* The symbols of the list that get_crypto_symbols() knows, and their ids
ValidSymbols(symbols) == SelectSeq(symbols, LAMBDA c : c \in DOMAIN CryptoMap)
CoingeckoIds(valid) == [k \in DOMAIN valid |-> CryptoMap[valid[k]].coingecko_id]

\* screen_multiple_cryptocurrencies(crypto_symbols, timeframe,
\* momentum_days); upCaps is the answer to the batched market cap request
ScreenMultipleCryptocurrencies(w, symbols, timeframe, days, upCaps, ups) ==
    IF ValidSymbols(symbols) = <<>> THEN Call(w, <<>>, FALSE, FALSE)
    ELSE Only({IF r.raised THEN Call(r.w, None, TRUE, r.called)
               ELSE CryptoLoop(r.w, ValidSymbols(symbols), 1, timeframe, days,
                               r.ret, ups, <<>>, r.called) :
                 r \in {GetMultipleCryptoMarketCaps(
                           w, CoingeckoIds(ValidSymbols(symbols)), upCaps)}})

\* What the upstream answers about a stock during one call: its info and
\* its series
StockAnswersFor(symbol) ==
    IF symbol = "AAPL"
    THEN {[info |-> UpInfo(MinMarketCap, MinVolume),
           data |-> UpFrame(RsiPeriod + StochPeriod, "flat", "rising")],
          [info |-> UpInfo(MinMarketCap, MinVolume - 1), data |-> UpError],
          [info |-> UpError, data |-> UpError]}
    ELSE {[info |-> UpInfo(MinMarketCap, 2 * MinVolume),
           data |-> UpFrame(RsiPeriod + StochPeriod, "flat", "rising")],
          [info |-> UpError, data |-> UpError]}

\* What the upstream answers about a coin during one call: its series and
\* its market cap
CryptoAnswersFor(symbol) ==
    IF symbol = "BTC"
    THEN {[data |-> UpFrame(RsiPeriod + StochPeriod, "flat", "rising"),
           cap |-> UpCaps([c \in {"bitcoin", "ethereum"} |-> 2])],
          [data |-> UpError, cap |-> UpError]}
    ELSE {[data |-> UpFrame(RsiPeriod + StochPeriod, "flat", "falling"),
           cap |-> UpCaps([c \in {"bitcoin", "ethereum"} |-> 2])],
          [data |-> UpError, cap |-> UpError]}

\* The parameters of the pairs of calls
TwiceCriteria == {"rsi_momentum", "other"}
TwiceDays == {MomentumDays}

\* One answer for each symbol of a list
StockAnswersTo(symbols) ==
    {ups \in [DOMAIN symbols ->
                UNION {StockAnswersFor(symbols[k]) : k \in DOMAIN symbols}] :
        \A k \in DOMAIN symbols : ups[k] \in StockAnswersFor(symbols[k])}
CryptoAnswersTo(symbols) ==
    {ups \in [DOMAIN symbols ->
                UNION {CryptoAnswersFor(symbols[k]) : k \in DOMAIN symbols}] :
        \A k \in DOMAIN symbols : ups[k] \in CryptoAnswersFor(symbols[k])}

\* What the two calls of a pair returned, and the cache and the limiters
\* between them
Twice(name, symbols, interval, criteria, days, first, second) ==
    [name |-> name, symbols |-> symbols, interval |-> interval,
     criteria |-> criteria, days |-> days,
     first |-> [ret |-> first.ret, raised |-> first.raised,
                called |-> first.called],
     between |-> [files |-> first.w.files, rate |-> first.w.rate],
     second |-> [ret |-> second.ret, raised |-> second.raised,
                 called |-> second.called]]

\* The rows a call of screen_stocks saves
SavedBy(call) == IF call.raised THEN <<>> ELSE SavedRows(call.ret)

\* The stock screening button is pressed twice in a row with the same
\* parameters
ScreenStocksTwice ==
    /\ tab = "stocks"
    /\ ScreenInTime
    /\ Len(saved) < MaxSaved
    /\ \E symbols \in StockLists, interval \in ScreenIntervals,
          criteria \in TwiceCriteria, days \in TwiceDays :
        \E ups1 \in StockAnswersTo(symbols), ups2 \in StockAnswersTo(symbols) :
          \E first \in {ScreenStocks(World, symbols, interval, criteria, days,
                                     ups1)} :
            \E second \in {ScreenStocks(first.w, symbols, interval, criteria,
                                        days, ups2)} :
              /\ Becomes(second.w)
              /\ saved' = saved \o SavedBy(first) \o SavedBy(second)
              /\ op' = Twice("screen_stocks_twice", symbols, interval,
                             criteria, days, first, second)
    /\ UNCHANGED <<tab, callers, written, missed, winCalls, pending, batch>>

\* The crypto screening button is pressed twice in a row with the same
\* parameters
ScreenCryptoTwice ==
    /\ tab = "crypto"
    /\ ScreenInTime
    /\ \E symbols \in CryptoLists, timeframe \in ScreenIntervals,
          days \in TwiceDays, upCaps1 \in CapsAnswers,
          upCaps2 \in CapsAnswers :
        \E ups1 \in CryptoAnswersTo(ValidSymbols(symbols)),
           ups2 \in CryptoAnswersTo(ValidSymbols(symbols)) :
          \E first \in {ScreenMultipleCryptocurrencies(
                           World, symbols, timeframe, days, upCaps1, ups1)} :
            \E second \in {ScreenMultipleCryptocurrencies(
                              first.w, symbols, timeframe, days, upCaps2,
                              ups2)} :
              /\ Becomes(second.w)
              /\ op' = Twice("screen_crypto_twice", symbols, timeframe, "",
                             days, first, second)
    /\ UNCHANGED <<tab, callers, written, missed, winCalls, pending, saved, batch>>

TwiceTick ==
    /\ now < StartTime + MaxScreenClock
    /\ now' = now + 1
    /\ op' = [name |-> "tick"]
    /\ UNCHANGED <<tab, callers, cacheVars, rateVars, dbVars>>

TwiceNext == ScreenStocksTwice \/ ScreenCryptoTwice \/ TwiceTick

SpecTwice == ScreenInit /\ [][TwiceNext]_vars

----------------------------------------------------------------------------
(* The signal analyzer: analyze_stoch_signal *)

\* The bounds of the oversold and of the overbought area
OversoldBelow == 20
OverboughtAbove == 80

\* Longest stoch_avg series of the model
MaxSeriesLen == 3

\* A value of a stoch_avg series: NaN, or a number in the oversold area,
\* between the areas, or in the overbought area
StochValues ==
    {NaN, Num(OversoldBelow - 10), Num(OversoldBelow + 30),
     Num(OverboughtAbove + 10)}
\* A series, or None in its place
Series(values) == [kind |-> "series", values |-> values]
\* A series with one oversold excursion, the latest value above it
ExcursionSeries ==
    Series(<<Num(25), Num(18), Num(15), Num(19), Num(22), Num(40)>>)
\* A series with one value below 20 and two above 80, the latest value
\* between the areas
BothAreasSeries ==
    Series(<<Num(OversoldBelow - 10), Num(OverboughtAbove + 10),
             Num(OverboughtAbove + 10), Num(OversoldBelow + 30)>>)
StochSeries ==
    {None, ExcursionSeries, BothAreasSeries}
    \cup {Series(values) :
             values \in UNION {[1 .. n -> StochValues] :
                                  n \in 0 .. MaxSeriesLen}}
SignalCandles == {1, 2, 3}

\* a < b and a > b of floats: a comparison with NaN is False
Less(a, b) == a # NaN /\ b # NaN /\ a.v < b.v
Greater(a, b) == Less(b, a)

RECURSIVE SumOf(_, _, _)
SumOf(series, from, to) ==
    IF from > to THEN 0
    ELSE (IF series[to] = NaN THEN 0 ELSE series[to].v)
         + SumOf(series, from, to - 1)

\* series.iloc[start_pos:end_pos+1].mean(): the mean of the numbers of the
\* window as a fraction, NaN skipped
WindowMean(series, from, to) ==
    [kind |-> "mean", sum |-> SumOf(series, from, to),
     count |-> Cardinality({k \in from .. to : series[k] # NaN})]

\* current > avg and current < avg for a mean of at least one number
AboveMean(current, avg) ==
    current # NaN /\ avg.count > 0 /\ current.v * avg.count > avg.sum
BelowMean(current, avg) ==
    current # NaN /\ avg.count > 0 /\ current.v * avg.count < avg.sum

\* stoch_avg < 20 and stoch_avg > 80
InArea(x, area) ==
    IF area = "oversold" THEN Less(x, Num(OversoldBelow))
    ELSE Greater(x, Num(OverboughtAbove))

\* oversold_avg and overbought_avg: last_oversold_pos is get_loc of the last
\* label of the area in the index of the area itself, that is the number of
\* values of the area less one, and the window of n_candles values ending
\* at that position is taken from the whole series; None when the area is
\* empty
AreaMean(series, n_candles, which) ==
    LET area == {k \in DOMAIN series : InArea(series[k], which)} IN
    IF area = {} THEN None
    ELSE LET last == Cardinality(area)
             start == IF last - n_candles + 1 > 1 THEN last - n_candles + 1
                      ELSE 1
         IN  WindowMean(series, start, last)

Signal(signal, current, oversold_avg, overbought_avg) ==
    [signal |-> signal, current |-> current, oversold_avg |-> oversold_avg,
     overbought_avg |-> overbought_avg]

\* analyze_stoch_signal with the SELL condition tested before the BUY
\* condition
AnalyzeStochSignalSellFirst(stoch_avg_series, n_candles) ==
    IF stoch_avg_series = None THEN Signal("HOLD", None, None, None)
    ELSE IF Len(stoch_avg_series.values) < n_candles + 1
    THEN Signal("HOLD", None, None, None)
    ELSE
      LET values == stoch_avg_series.values
          current == values[Len(values)]
          oversold_avg == AreaMean(values, n_candles, "oversold")
          overbought_avg == AreaMean(values, n_candles, "overbought")
      IN  IF overbought_avg # None /\ BelowMean(current, overbought_avg)
          THEN Signal("SELL", current, oversold_avg, overbought_avg)
          ELSE IF oversold_avg # None /\ AboveMean(current, oversold_avg)
          THEN Signal("BUY", current, oversold_avg, overbought_avg)
          ELSE Signal("HOLD", current, oversold_avg, overbought_avg)

\* analyze_stoch_signal(stoch_avg_series, n_candles), the same in utils.py
\* and in crypto_utils.py
AnalyzeStochSignal(stoch_avg_series, n_candles) ==
    IF stoch_avg_series = None THEN Signal("HOLD", None, None, None)
    ELSE IF Len(stoch_avg_series.values) < n_candles + 1
    THEN Signal("HOLD", None, None, None)
    ELSE
      LET values == stoch_avg_series.values
          current == values[Len(values)]
          oversold_avg == AreaMean(values, n_candles, "oversold")
          overbought_avg == AreaMean(values, n_candles, "overbought")
      IN  IF oversold_avg # None /\ AboveMean(current, oversold_avg)
          THEN Signal("BUY", current, oversold_avg, overbought_avg)
          ELSE IF overbought_avg # None /\ BelowMean(current, overbought_avg)
          THEN Signal("SELL", current, oversold_avg, overbought_avg)
          ELSE Signal("HOLD", current, oversold_avg, overbought_avg)

\* analyze_stoch_signal is called on a series
Analyze ==
    \E series \in StochSeries, n_candles \in SignalCandles :
        /\ op' = [name |-> "analyze_stoch_signal", series |-> series,
                  n_candles |-> n_candles,
                  ret |-> AnalyzeStochSignal(series, n_candles)]
        /\ UNCHANGED <<tab, callers, now, cacheVars, rateVars, dbVars>>

SignalNext == Analyze

SpecSignal == RateInit /\ [][SignalNext]_vars

----------------------------------------------------------------------------
(* The RSI calculator: calculate_rsi *)

\* Longest price series and longest period of the model
MaxPrices == 3
MaxPeriod == 3

PriceLevels == {1, 2, 3}
\* A price series by position, the first position being 0
PriceSeries ==
    UNION {[0 .. n - 1 -> PriceLevels] : n \in 0 .. MaxPrices}
RsiPeriods == 1 .. MaxPeriod

\* prices.diff(): no value at position 0
Diff(prices) ==
    [i \in DOMAIN prices |->
        IF i = 0 THEN NaN ELSE Num(prices[i] - prices[i - 1])]

\* delta.where(delta > 0, 0) and -delta.where(delta < 0, 0): a position where
\* the condition is False, the one without a value included, becomes 0
Gains(delta) ==
    [i \in DOMAIN delta |->
        IF Greater(delta[i], Num(0)) THEN delta[i].v ELSE 0]
Losses(delta) ==
    [i \in DOMAIN delta |->
        IF Less(delta[i], Num(0)) THEN 0 - delta[i].v ELSE 0]

RECURSIVE SumFrom(_, _, _)
SumFrom(xs, from, to) ==
    IF from > to THEN 0 ELSE xs[to] + SumFrom(xs, from, to - 1)

\* xs.rolling(window=period).mean() times period: a value where the window
\* holds `period` positions
RollingSum(xs, period) ==
    [i \in DOMAIN xs |->
        IF i + 1 < period THEN NaN
        ELSE Num(SumFrom(xs, i - period + 1, i))]

\* 100 - 100 / (1 + gain / loss) as the fraction 100 * gain / (gain + loss):
\* 0 / 0 is NaN, and gain / 0 is inf, which gives 100
Ratio(num, den) == [kind |-> "ratio", num |-> num, den |-> den]
RsiOf(gain, loss) ==
    IF gain = NaN \/ loss = NaN THEN NaN
    ELSE IF loss.v = 0 /\ gain.v = 0 THEN NaN
    ELSE Ratio(100 * gain.v, gain.v + loss.v)

\* calculate_rsi(prices, period), the same in utils.py and crypto_utils.py
CalculateRsi(prices, period) ==
    LET delta == Diff(prices)
        gain == RollingSum(Gains(delta), period)
        loss == RollingSum(Losses(delta), period)
    IN  [i \in DOMAIN prices |-> RsiOf(gain[i], loss[i])]

\* calculate_rsi is called on a price series
Rsi ==
    \E prices \in PriceSeries, period \in RsiPeriods :
        /\ op' = [name |-> "calculate_rsi", prices |-> prices,
                  period |-> period, ret |-> CalculateRsi(prices, period)]
        /\ UNCHANGED <<tab, callers, now, cacheVars, rateVars, dbVars>>

RsiNext == Rsi

SpecRsi == RateInit /\ [][RsiNext]_vars

----------------------------------------------------------------------------
(* The momentum windows of the two screeners *)

\* Longest series whose windows are computed
MaxBars == 50

\* momentum_days: one day, a week, two weeks, five weeks
WindowDays == {1, MomentumDays, 2 * MomentumDays, 5 * MomentumDays}
WindowIntervals == {"15m", "1h", "4h", "1d", "1W", "1mo"}
BarCounts == 0 .. MaxBars

\* A position of a slice given as an int that may be negative, in a series
\* of n rows
SlicePosition(n, x) ==
    IF x < 0 THEN (IF n + x < 0 THEN 0 ELSE n + x)
    ELSE IF x > n THEN n ELSE x

\* series.iloc[a:b]: the positions of the rows it takes
Iloc(n, a, b) ==
    {i \in 0 .. n - 1 : SlicePosition(n, a) <= i /\ i < SlicePosition(n, b)}

\* series.tail(k): the positions of the rows it takes
TailRows(n, k) ==
    IF k = 0 THEN {} ELSE {i \in 0 .. n - 1 : SlicePosition(n, -k) <= i}

\* The rows two means are taken over, or none when the screener does not
\* compute the momentum from windows
Windows(current, prev) == [computed |-> TRUE, current |-> current, prev |-> prev]
NoWindows == [computed |-> FALSE, current |-> {}, prev |-> {}]

\* The windows of current_rsi_avg and prev_rsi_avg in screen_stocks for a
\* series of n bars (those of the SMA averages are the same)
StockWindows(n, interval, days) ==
    LET total_candles == TotalCandles(interval, days) IN
    IF n <= MinBars \/ ~HasStochColumns([n |-> n]) THEN NoWindows
    ELSE IF n < total_candles THEN NoWindows
    ELSE IF interval = "1W"
    THEN Windows(TailRows(n, 1), IF n >= 2 THEN Iloc(n, -2, -1) ELSE {0})
    ELSE Windows(TailRows(n, total_candles),
                 Iloc(n, -(total_candles * 2), -total_candles))

\* The windows of current_rsi_avg and prev_rsi_avg in screen_cryptocurrency
CryptoWindows(n, timeframe, days) ==
    LET candles_per_period == GetCandlesPerPeriod(timeframe, days) IN
    IF n <= MinBars \/ ~HasStochColumns([n |-> n]) THEN NoWindows
    ELSE IF n < candles_per_period * 2 THEN NoWindows
    ELSE Windows(TailRows(n, candles_per_period),
                 Iloc(n, -(candles_per_period * 2), -candles_per_period))

\* A screener takes the averages of a series of n bars
StockMomentumWindows ==
    \E n \in BarCounts, interval \in WindowIntervals, days \in WindowDays :
        /\ op' = [name |-> "windows", screener |-> "screen_stocks", n |-> n,
                  interval |-> interval, days |-> days,
                  windows |-> StockWindows(n, interval, days)]
        /\ UNCHANGED <<tab, callers, now, cacheVars, rateVars, dbVars>>

CryptoMomentumWindows ==
    \E n \in BarCounts, timeframe \in WindowIntervals, days \in WindowDays :
        /\ op' = [name |-> "windows", screener |-> "screen_crypto", n |-> n,
                  interval |-> timeframe, days |-> days,
                  windows |-> CryptoWindows(n, timeframe, days)]
        /\ UNCHANGED <<tab, callers, now, cacheVars, rateVars, dbVars>>

WindowsNext == StockMomentumWindows \/ CryptoMomentumWindows

SpecWindows == RateInit /\ [][WindowsNext]_vars

----------------------------------------------------------------------------
(* Claims about the cache store, checked under SpecCache *)

OpFile == op.file
OpWritten == written[op.store][GetCachePath(op.key)]
OpMissed == missed[op.store][GetCachePath(op.key)]

\* C1: get(key, ttl) returns the stored payload exactly when an entry for the
\* key exists and now - timestamp_written <= ttl, and returns absent (without
\* raising) when there is no entry or the entry is older than ttl.
C1_GetReturnsEntryWithinTtl ==
    (op.name = "get" /\ (OpFile.kind = "nofile" \/ WellFormed(OpFile))) =>
        /\ ~op.raised
        /\ op.ret = IF WellFormed(OpFile)
                       /\ now - FromIsoFormat(OpFile.ts) <= op.ttl
                    THEN OpFile.data
                    ELSE None

\* a get that hits an entry whose age is exactly the ttl
C1_Witness ==
    /\ op.name = "get"
    /\ WellFormed(OpFile)
    /\ op.ttl > 0
    /\ now - FromIsoFormat(OpFile.ts) = op.ttl
    /\ op.ret = OpFile.data

\* C2 as stated: get(key, ttl=0) with no time elapsed since set(key, payload)
\* returns absent.
C2_ZeroTtlAbsentAtOnce ==
    (op.name = "get" /\ op.ttl = 0 /\ OpWritten.kind = "set"
        /\ OpWritten.at = now) =>
        op.ret = None

\* C2 amended: get(key, ttl=0) after set(key, payload) returns absent once
\* time has elapsed since the set; with no time elapsed it returns the payload
\* that was written.
C2_ZeroTtlAbsentOnceTimeElapsed ==
    (op.name = "get" /\ op.ttl = 0 /\ OpWritten.kind = "set") =>
        /\ ~op.raised
        /\ now > OpWritten.at => op.ret = None
        /\ (now = OpWritten.at /\ OpWritten.dirOk
              /\ JsonSerializable(OpWritten.data)) => op.ret = OpWritten.data

C2_Witness ==
    /\ op.name = "get"
    /\ op.ttl = 0
    /\ OpWritten.kind = "set"
    /\ OpWritten.at = now
    /\ op.ret = OpWritten.data

C4_GetKeepsExpiredEntry ==
    \A s \in Stores, k \in TestKeys :
        LET m == missed[s][GetCachePath(k)]
            f == FileAt(files, s, GetCachePath(k))
        IN  m.kind = "entry" =>
              /\ WellFormed(f)
              /\ f.ts = m.ts
              /\ f.data = m.data
              /\ \A ttl \in Ttls :
                    ttl >= now - FromIsoFormat(m.ts) =>
                        CacheGet(files, s, k, ttl, now).value = m.data

\* a get that returns the entry an earlier get reported absent
C4_Witness ==
    /\ op.name = "get"
    /\ OpMissed.kind = "entry"
    /\ op.ret = OpMissed.data

\* C5: a malformed stored entry makes get return absent and never raise.
C5_MalformedEntryIsMiss ==
    (op.name = "get" /\ OpFile.kind = "file" /\ ~WellFormed(OpFile)) =>
        (~op.raised /\ op.ret = None)

----------------------------------------------------------------------------
(* Claims about the rate limiter, checked under SpecRate *)

\* C6: inside a window the first `limit` calls of check_rate_limit return
\* true and every later one false, leaving reset_time alone; a call made
\* more than `window` after reset_time starts a new window at now (the count
\* restarts from 0 and counts this call) and returns true.
C6_AllowCountsCallsPerWindow ==
    (op.name = "check" /\ op.api \in Apis) =>
        LET r == rate[op.api]
            b == op.before
        IN  /\ op.ret = (winCalls[op.api] <= Limit(op.api))
            /\ r.calls <= Limit(op.api)
            /\ IF now - b.reset_time > Window(op.api)
               THEN op.ret /\ r.calls = 1 /\ r.reset_time = now
               ELSE /\ r.reset_time = b.reset_time
                    /\ op.ret = (b.calls < Limit(op.api))
                    /\ r.calls = IF op.ret THEN b.calls + 1 ELSE b.calls

\* a call that finds a used-up window elapsed and starts a new one
C6_Witness ==
    /\ op.name = "check"
    /\ op.api \in Apis
    /\ op.before.calls = Limit(op.api)
    /\ now - op.before.reset_time > Window(op.api)
    /\ op.ret
    /\ rate[op.api].calls = 1

\* C7: when wait_for_rate_limit returns, the window that was current at the
\* call has elapsed and the call count is 0.
C7_WaitLeavesCountZero ==
    op.name = "wait" =>
        /\ now - op.before.reset_time >= Window(op.api)
        /\ rate[op.api].calls = 0

----------------------------------------------------------------------------
(* Claims about concurrent callers of the limiter, checked under SpecThreads *)

\* C27: for any interleaving of two or more threads running
\* check_rate_limit on the same api no increment is lost (once no thread is
\* inside the function, calls is the number of calls granted in the window)
\* and the number of calls granted in one window never exceeds the limit.
C27_AtomicCounters ==
    \A api \in ThreadApis :
        /\ callers.granted[api] <= Limit(api)
        /\ (\A t \in Threads : callers.at[t].pc = "idle") =>
              rate[api].calls = callers.granted[api]

----------------------------------------------------------------------------
(* Claims about the callers' protocol, checked under SpecProtocol *)

\* The upstream calls issued to the api in the span of length window that
\* starts at time t
IssuedInSpan(api, t) ==
    {j \in DOMAIN callers.issued[api] :
        t <= callers.issued[api][j] /\ callers.issued[api][j] < t + Window(api)}

\* C28: when every caller follows the protocol (check_rate_limit, on False
\* wait_for_rate_limit, then the upstream call), the upstream calls issued
\* to one api inside any time span of length window never exceed the api's
\* limit, whatever time passes between the calls.
C28_CallsPerSpan ==
    \A api \in ThreadApis :
        \A i \in DOMAIN callers.issued[api] :
            Cardinality(IssuedInSpan(api, callers.issued[api][i])) <= Limit(api)

----------------------------------------------------------------------------
(* Claims about the price history fetchers, checked under SpecFetch *)

\* The cache holds a non-expired entry for the key at this moment
FreshEntry(store, key, interval) ==
    LET f == FileAt(files, store, GetCachePath(key)) IN
    WellFormed(f) /\ now - FromIsoFormat(f.ts) <= TtlMap(interval)

EntryData(store, key) == FileAt(files, store, GetCachePath(key)).data

\* C8: a fetch that finds a non-expired cache entry for (symbol, period,
\* interval) returns that series, issues no upstream call and leaves the rate
\* limiter, the stock_data table and the cache as they were
\* (fetch_stock_data and get_crypto_price).
C8_CacheHitShortCircuits ==
    [][ /\ (op'.name = "fetch_stock"
              /\ FreshEntry("stocks",
                            StockDataKey(op'.sym, op'.period, op'.interval),
                            op'.interval)) =>
              /\ UNCHANGED <<now, files, stockDir, rate, db>>
              /\ ~op'.called /\ ~op'.raised
              /\ op'.ret = FrameFromCache(
                     EntryData("stocks",
                               StockDataKey(op'.sym, op'.period, op'.interval)))
        /\ (op'.name = "fetch_crypto"
              /\ FreshEntry("crypto",
                            YahooKey(op'.sym, op'.period, op'.interval),
                            op'.interval)) =>
              /\ UNCHANGED <<now, files, stockDir, rate, db>>
              /\ ~op'.called /\ ~op'.raised
              /\ op'.ret = FrameFromCache(
                     EntryData("crypto",
                               YahooKey(op'.sym, op'.period, op'.interval)))
      ]_vars

\* a stock fetch served from the cache after the limiter has counted calls
C8_Witness ==
    /\ op.name = "fetch_stock"
    /\ op.ret # None
    /\ op.ret.from = "cache"
    /\ rate["yahoo_stock"].calls > 0
    /\ db = <<>>

\* C9: whenever fetch_stock_data obtains a non-empty series from the live
\* upstream, on return the cache holds an entry for (symbol, period,
\* interval) stamped with the fetch time, the stock_data table holds the
\* fetched bars of the symbol, and the fetched series is returned.
C9_LiveFetchWritesThrough ==
    (op.name = "fetch_stock" /\ op.called /\ op.up.kind = "frame") =>
        LET key == StockDataKey(op.sym, op.period, op.interval)
            f == FileAt(files, "stocks", GetCachePath(key))
        IN  /\ WellFormed(f)
            /\ FromIsoFormat(f.ts) = now
            /\ f.data.sym = op.sym /\ f.data.n = op.up.n
            /\ LoadStockData(db, op.sym)
                 = NewRows(op.sym, op.period, op.interval, op.up)
            /\ op.ret = Frame("live", op.sym, {<<op.period, op.interval>>},
                              op.up.n, op.up.cols, op.up.px)

\* C20: whenever fetch_stock_data is called while the cache entry for
\* (symbol, period, interval) is absent or expired, it calls the upstream, and
\* the series it returns is the live one if the upstream has one; rows of
\* stock_data are returned only after a live call that failed.
C20_RegeneratedOnMiss ==
    [][ (op'.name = "fetch_stock" /\ ~op'.raised
          /\ ~FreshEntry("stocks",
                         StockDataKey(op'.sym, op'.period, op'.interval),
                         op'.interval)) =>
          /\ op'.called
          /\ op'.up.kind = "frame" =>
                op'.ret # None /\ op'.ret.from = "live"
          /\ (op'.ret # None /\ op'.ret.from = "db") =>
                op'.up.kind # "frame" ]_vars

\* C21: the stock_data table never holds two rows with the same symbol and
\* date, whatever fetches, expiries, cache clears and clear_stock_data calls
\* came before, and a live fetch that got a series returns it: the write of
\* its bars never meets a bar that is already there.
C21_OneBarPerTimestamp ==
    /\ \A i, j \in DOMAIN db :
          (db[i].symbol = db[j].symbol /\ db[i].date = db[j].date) => i = j
    /\ (op.name = "fetch_stock" /\ op.called /\ op.up.kind = "frame") =>
          (op.ret # None /\ op.ret.from = "live")

\* a live fetch wrote its bars after a fetch of the other interval had
\* written its own and clear_stock_data had removed them
C21_Witness ==
    /\ op.name = "fetch_stock"
    /\ op.called /\ op.up.kind = "frame"
    /\ op.ret # None /\ op.ret.from = "live"
    /\ db = NewRows(op.sym, op.period, op.interval, op.up)
    /\ \E i \in Intervals \ {op.interval} :
          WellFormed(FileAt(files, "stocks",
                            GetCachePath(StockDataKey(op.sym, op.period, i))))

\* C29: a series returned by fetch_stock_data(symbol, period, interval) was
\* obtained for that period and that interval, whatever fetches of the
\* symbol with other intervals or periods came before.
C29_OnlyRequestedBars ==
    (op.name = "fetch_stock" /\ ~op.raised /\ op.ret # None) =>
        op.ret.srcs = {<<op.period, op.interval>>}

----------------------------------------------------------------------------
(* Claims about the screeners, checked under SpecScreen *)

\* C10: no failure in one symbol's pipeline (upstream failure, empty
\* response, too few bars for the Stochastic RSI columns, indicator error)
\* aborts a screening batch: screen_stocks and
\* screen_multiple_cryptocurrencies process every symbol of the list and
\* return a result list instead of raising.
C10_NoSymbolAbortsBatch ==
    op.name \in {"screen_stocks", "screen_crypto"} =>
        /\ ~op.raised
        /\ op.done = Len(op.symbols)

\* The rows are in non-increasing order of score
SortedByScore(rows) ==
    \A i, j \in DOMAIN rows : i < j => rows[i].score >= rows[j].score

\* The rows with a profitability score are in non-increasing order of it, the
\* rows without one come after them
SortedByProfitability(rows) ==
    \A i, j \in DOMAIN rows :
        i < j => \/ ~rows[j].scored
                 \/ rows[i].scored /\ rows[i].score >= rows[j].score

Position(symbols, symbol) == CHOOSE k \in DOMAIN symbols : symbols[k] = symbol

\* The rows are in the order of the input symbols
InInputOrder(rows, symbols) ==
    \A i, j \in DOMAIN rows :
        i < j => Position(symbols, rows[i].symbol) < Position(symbols, rows[j].symbol)

\* The profitability score the handler computes for each row of a list
Profitability(rows) ==
    [k \in DOMAIN rows |->
        [symbol |-> rows[k].symbol,
         scored |-> ProfitabilityScore(rows[k]) # NaN,
         score |-> IF ProfitabilityScore(rows[k]) = NaN THEN 0
                   ELSE ProfitabilityScore(rows[k]).v]]

StockPassSeen ==
    IF op.name = "pass" /\ op.screener = "screen_stocks" THEN op
    ELSE IF op.name = "screen_stocks" /\ op.raised THEN op.pass
    ELSE None

\* The symbol of the pass passed the volume and market cap filter and its
\* series has more than 20 bars
Screened(pass) ==
    /\ pass.info # None
    /\ pass.info.avg_volume >= MinVolume
    /\ pass.info.market_cap >= MinMarketCap
    /\ pass.data # None
    /\ pass.data.n > MinBars

KnownCriteria == {"rsi_only", "trend_naik", "rsi_momentum"}

\* C16: in 'rsi_momentum' mode of screen_stocks a symbol that passed the
\* volume and market cap filter and has more than 20 bars is in the result
\* exactly when current_rsi_avg > prev_rsi_avg and current_sma_avg >
\* prev_sma_avg; every returned row has rsi_momentum > 0 and sma_momentum > 0;
\* a criteria value that is none of the three known modes yields an empty
\* result.
C16_RsiMomentumMode ==
    /\ (StockPassSeen # None /\ StockPassSeen.criteria = "rsi_momentum"
          /\ Screened(StockPassSeen)) =>
          /\ ~StockPassSeen.raised
          /\ StockPassSeen.row # None
                <=> StockMomentum(StockPassSeen.data, StockPassSeen.interval,
                                  StockPassSeen.days)
    /\ (op.name = "screen_stocks" /\ ~op.raised
          /\ op.criteria = "rsi_momentum") =>
          \A k \in DOMAIN op.ret :
              /\ op.ret[k].rsi_momentum # NaN /\ op.ret[k].rsi_momentum.v > 0
              /\ op.ret[k].sma_momentum # NaN /\ op.ret[k].sma_momentum.v > 0
    /\ (op.name = "screen_stocks" /\ ~op.raised
          /\ op.criteria \notin KnownCriteria) => op.ret = <<>>

\* The info is below min_volume or below min_market_cap
BelowMinimum(info) ==
    info.avg_volume < MinVolume \/ info.market_cap < MinMarketCap

\* The cache file of the series of a symbol
SeriesFile(fs, symbol, interval) ==
    FileAt(fs, "stocks", GetCachePath(StockDataKey(symbol, "6mo", interval)))

\* C17: for a symbol whose average volume is below min_volume or whose market
\* cap is below min_market_cap, screen_stocks does not invoke the price
\* history fetch (no cache lookup result, no stock_data row, no cache file
\* written for the series) and adds no row; no row of a returned list is
\* below the minimums.
C17_CoarseFilterFirst ==
    [][ /\ (op'.name = "pass" /\ op'.screener = "screen_stocks"
              /\ op'.info # None /\ BelowMinimum(op'.info)) =>
              /\ op'.calls = <<"info">>
              /\ op'.data = None /\ op'.row = None /\ ~op'.raised
              /\ db' = db
              /\ SeriesFile(files', op'.symbol, op'.interval)
                   = SeriesFile(files, op'.symbol, op'.interval)
              /\ batch'.results = batch.results
        /\ (op'.name = "screen_stocks" /\ ~op'.raised) =>
              \A k \in DOMAIN op'.ret : ~BelowMinimum(op'.ret[k]) ]_vars

\* A pass got an average volume below min_volume from the upstream and went
\* on to the next symbol
C17_Witness ==
    /\ op.name = "pass" /\ op.screener = "screen_stocks"
    /\ op.info # None
    /\ op.info.avg_volume = MinVolume - 1
    /\ op.calls = <<"info">>
    /\ batch.pc = "stocks"

\* The pass of either screener's loop that the last step made, None if it
\* made none
PassSeen ==
    IF op.name = "pass" THEN op ELSE StockPassSeen

\* The series of the pass has too few bars for its momentum window: fewer
\* than two periods, or fewer than 2 bars for weekly data
TooFewBars(pass) ==
    IF pass.interval = "1W" THEN pass.data.n < 2
    ELSE IF pass.screener = "screen_stocks"
    THEN pass.data.n < 2 * TotalCandles(pass.interval, pass.days)
    ELSE pass.data.n < 2 * GetCandlesPerPeriod(pass.interval, pass.days)

\* C18: a symbol whose series has too few bars for the chosen momentum window
\* is never added to the result of screen_stocks or of
\* screen_multiple_cryptocurrencies, under any criteria, and its pass raises
\* no error.
C18_TooFewBarsExcluded ==
    (PassSeen # None /\ PassSeen.data # None /\ TooFewBars(PassSeen)) =>
        PassSeen.row = None /\ ~PassSeen.raised

\* C24: screen_stocks writes to screening_results at most once per call: in
\* the step that ends the call, after the last symbol, and then the rows of
\* the complete list it returns; no pass of the loop writes a row, and a call
\* that raises or returns an empty list writes nothing.
C24_SavedOncePerCall ==
    [][ /\ op'.name = "pass" => saved' = saved
        /\ (op'.name = "screen_stocks" /\ op'.raised) => saved' = saved
        /\ (op'.name = "screen_stocks" /\ ~op'.raised) =>
              /\ batch.i > Len(batch.symbols)
              /\ saved' = saved \o SavedRows(op'.ret)
        /\ saved' # saved =>
              /\ op'.name = "screen_stocks"
              /\ batch.pc = "stocks" /\ batch'.pc = "idle"
      ]_vars

\* a call returned two rows and saved both when it ended
C24_Witness ==
    /\ op.name = "screen_stocks"
    /\ ~op.raised
    /\ Len(op.ret) = 2
    /\ saved = SavedRows(op.ret)

----------------------------------------------------------------------------
(* Claims about two screening calls in a row, checked under SpecTwice *)

\* The cache holds a non-expired entry of at most ttl ticks under the key
Fresh(store, key, ttl) ==
    LET f == FileAt(files, store, GetCachePath(key)) IN
    WellFormed(f) /\ now - FromIsoFormat(f.ts) <= ttl

\* The info and, for a stock that passes the volume and market cap filter,
\* the series of every symbol are non-expired cache entries
StocksServedFromCache(symbols, interval) ==
    \A k \in DOMAIN symbols :
        LET info == EntryData("stocks", StockInfoKey(symbols[k]))
            key == StockDataKey(symbols[k], "6mo", interval)
        IN  /\ Fresh("stocks", StockInfoKey(symbols[k]), InfoTtl)
            /\ (info.avg_volume >= MinVolume /\ info.market_cap >= MinMarketCap)
                  => /\ Fresh("stocks", key, TtlMap(interval))
                     /\ FrameConverts(EntryData("stocks", key))

\* The market cap and the series of every known symbol are non-expired
\* cache entries
CryptoServedFromCache(symbols, timeframe) ==
    \A k \in DOMAIN ValidSymbols(symbols) :
        LET info == CryptoMap[ValidSymbols(symbols)[k]]
            key == YahooKey(info.symbol, PeriodMap(timeframe), timeframe)
        IN  /\ Fresh("crypto", MarketCapKey(info.coingecko_id), MarketCapTtl)
            /\ Fresh("crypto", key, TtlMap(timeframe))
            /\ FrameConverts(EntryData("crypto", key))

\* Neither call of the pair called the upstream or raised, the cache and the
\* limiters are after each call what they were before the first, and the
\* second call returned the list of the first
SameTwice(pair) ==
    /\ ~pair.first.called /\ ~pair.second.called
    /\ ~pair.first.raised /\ ~pair.second.raised
    /\ pair.between.files = files /\ pair.between.rate = rate
    /\ files' = files /\ rate' = rate
    /\ pair.second.ret = pair.first.ret

\* C14: when every series and every info or market cap lookup needed is
\* served from non-expired cache entries, two consecutive screening calls
\* with identical parameters issue no upstream call, leave the cache and the
\* rate limit counters unchanged and return the same rows in the same order.
C14_ScreenerIdempotent ==
    [][ /\ (op'.name = "screen_stocks_twice"
              /\ StocksServedFromCache(op'.symbols, op'.interval))
             => SameTwice(op')
        /\ (op'.name = "screen_crypto_twice"
              /\ ValidSymbols(op'.symbols) # <<>>
              /\ CryptoServedFromCache(op'.symbols, op'.interval))
             => SameTwice(op') ]_vars

\* Two calls of screen_multiple_cryptocurrencies in a row returned two rows
\* each, all of it served from the cache
C14_Witness ==
    /\ op.name = "screen_crypto_twice"
    /\ ~op.first.called /\ ~op.second.called
    /\ Len(op.first.ret) = 2 /\ Len(op.second.ret) = 2
    /\ \A k \in DOMAIN op.first.ret : op.first.ret[k].from = "cache"
    /\ CryptoServedFromCache(op.symbols, op.interval)

----------------------------------------------------------------------------
(* Claims about the signal analyzer, checked under SpecSignal *)

\* The BUY and the SELL condition on what analyze_stoch_signal returned
BuyCondition(ret) ==
    ret.oversold_avg # None /\ AboveMean(ret.current, ret.oversold_avg)
SellCondition(ret) ==
    ret.overbought_avg # None /\ BelowMean(ret.current, ret.overbought_avg)

\* The averages returned are those analyze_stoch_signal computes of the
\* series
AveragesOf(series, n_candles, ret) ==
    /\ ret.current = series[Len(series)]
    /\ ret.oversold_avg = AreaMean(series, n_candles, "oversold")
    /\ ret.overbought_avg = AreaMean(series, n_candles, "overbought")

\* C15: analyze_stoch_signal returns BUY exactly when oversold_avg is defined
\* and current > oversold_avg, SELL exactly when that is false and
\* overbought_avg is defined and current < overbought_avg, and HOLD in every
\* other case; when both conditions hold the result is BUY.
C15_SignalPriority ==
    op.name = "analyze_stoch_signal" =>
        /\ op.ret.signal \in {"BUY", "SELL", "HOLD"}
        /\ (op.series # None /\ Len(op.series.values) >= op.n_candles + 1)
              => AveragesOf(op.series.values, op.n_candles, op.ret)
        /\ op.ret.signal = "BUY" <=> BuyCondition(op.ret)
        /\ op.ret.signal = "SELL" <=>
              ~BuyCondition(op.ret) /\ SellCondition(op.ret)
        /\ op.ret.signal = "HOLD" <=>
              ~BuyCondition(op.ret) /\ ~SellCondition(op.ret)

\* Both conditions hold and the signal is BUY
C15_Witness ==
    /\ op.name = "analyze_stoch_signal"
    /\ BuyCondition(op.ret) /\ SellCondition(op.ret)
    /\ op.ret.signal = "BUY"

\* The mean of the min(n_candles, p + 1) consecutive values that end at
\* position p, the position in the series of the last value of the area;
\* None when the area is empty
MeanEndingAtLast(series, n_candles, which) ==
    LET area == {k \in DOMAIN series : InArea(series[k], which)} IN
    IF area = {} THEN None
    ELSE LET p == CHOOSE k \in area : \A j \in area : j <= k
             start == IF p - n_candles + 1 > 1 THEN p - n_candles + 1 ELSE 1
         IN  WindowMean(series, start, p)

\* C26: when the series has a value below 20, oversold_avg is the mean of
\* the min(lookback, p + 1) consecutive values ending at and including
\* position p, the position of the most recent value below 20 ([25, 18, 15,
\* 19, 22, 40] with lookback 3 gives mean(18, 15, 19) and BUY); overbought_avg
\* is computed the same way from the values above 80; each is absent when
\* there is no such value.
C26_ReferenceAverage ==
    (/\ op.name = "analyze_stoch_signal"
     /\ op.series # None
     /\ Len(op.series.values) >= op.n_candles + 1) =>
        /\ op.ret.oversold_avg
             = MeanEndingAtLast(op.series.values, op.n_candles, "oversold")
        /\ op.ret.overbought_avg
             = MeanEndingAtLast(op.series.values, op.n_candles, "overbought")
        /\ (op.series = ExcursionSeries /\ op.n_candles = 3) =>
              op.ret.signal = "BUY"

----------------------------------------------------------------------------
(* Claims about the RSI calculator, checked under SpecRsi *)

\* C19: the output of calculate_rsi(prices, period) has no value at any
\* position i < period, and its first value is at position `period`.
C19_RsiWarmUp ==
    op.name = "calculate_rsi" =>
        /\ \A i \in DOMAIN op.ret : i < op.period => op.ret[i] = NaN
        /\ op.period \in DOMAIN op.ret => op.ret[op.period] # NaN

----------------------------------------------------------------------------
(* Claims about the market cap lookups, checked under SpecCaps *)

\* The cache holds a non-expired market cap for the id at this moment
FreshCap(cid) ==
    LET f == FileAt(files, "crypto", GetCachePath(MarketCapKey(cid))) IN
    WellFormed(f) /\ now - FromIsoFormat(f.ts) <= MarketCapTtl

\* The calls the limiter counts in the window that holds this moment
CountedCalls(api) ==
    IF now - rate[api].reset_time > Window(api) THEN 0 ELSE rate[api].calls

Range(seq) == {seq[k] : k \in DOMAIN seq}

\* C11: get_multiple_crypto_market_caps(ids): if every id has a non-expired
\* cache entry no upstream call is issued and no rate-limit token is
\* consumed; otherwise one upstream call is issued, it contains exactly the
\* uncached ids, it consumes one rate-limit token, and on success the
\* returned map has a key for every id in ids.
C11_BatchedResolve ==
    [][ op'.name = "resolve" =>
          IF \A c \in Range(op'.ids) : FreshCap(c)
          THEN /\ ~op'.called
               /\ rate' = rate
          ELSE /\ op'.called
               /\ op'.sent = SelectSeq(op'.ids, LAMBDA c : ~FreshCap(c))
               /\ rate'["coingecko"].calls = CountedCalls("coingecko") + 1
               /\ op'.up.kind = "caps" => DOMAIN op'.ret = Range(op'.ids)
      ]_vars

\* C12: when the batched upstream call fails (non-200 response, timeout or
\* exception), get_multiple_crypto_market_caps(ids) returns a map with the
\* cached value of every cached id and 0 for every unresolved id, so that
\* every requested id is a key of the map.
C12_FailedResolveDefaultsToZero ==
    [][ (op'.name = "resolve" /\ op'.called /\ op'.up.kind # "caps") =>
          /\ DOMAIN op'.ret = Range(op'.ids)
          /\ \A c \in Range(op'.ids) :
                op'.ret[c] = IF FreshCap(c)
                             THEN EntryData("crypto", MarketCapKey(c)).v
                             ELSE 0
      ]_vars

\* C25: a batched lookup whose upstream call succeeded leaves a cache entry
\* of its own for every id it sent, stamped with the time of the call and
\* holding the value returned for the id; and a single lookup of an id whose
\* entry is at most 300 s old returns the entry's value, calls no upstream
\* and leaves the rate limiter as it was.
C25_BatchFeedsSingleLookups ==
    [][ /\ (op'.name = "resolve" /\ op'.called /\ op'.up.kind = "caps") =>
              \A c \in Range(op'.sent) :
                LET f == FileAt(files', "crypto",
                                GetCachePath(MarketCapKey(c)))
                IN  /\ WellFormed(f)
                    /\ FromIsoFormat(f.ts) = now'
                    /\ f.data = Num(op'.ret[c])
        /\ (op'.name = "market_cap" /\ FreshCap(op'.id)) =>
              /\ ~op'.called /\ ~op'.raised
              /\ op'.ret = EntryData("crypto", MarketCapKey(op'.id)).v
              /\ UNCHANGED <<now, files, rate>>
      ]_vars

\* a single lookup is answered from one of three entries that one batched
\* call wrote: the limiter has counted one call
C25_Witness ==
    /\ op.name = "market_cap"
    /\ op.id = "solana"
    /\ ~op.called
    /\ rate["coingecko"].calls = 1
    /\ \A c \in CapIds :
          /\ FreshCap(c)
          /\ FileAt(files, "crypto", GetCachePath(MarketCapKey(c))).ts
               = FileAt(files, "crypto",
                        GetCachePath(MarketCapKey("solana"))).ts

----------------------------------------------------------------------------
(* Claims about the momentum windows, checked under SpecWindows *)

\* The window length the averages are meant to be taken over: one bar per
\* week in screen_stocks, total_candles otherwise
CandlesPerPeriod(screener, interval, days) ==
    IF screener = "screen_crypto" THEN GetCandlesPerPeriod(interval, days)
    ELSE IF interval = "1W" THEN 1
    ELSE TotalCandles(interval, days)

\* C22: whenever a screener computes the momentum from windows (not from
\* the latest value alone), current_avg is the mean of exactly the last
\* candles_per_period bars and prev_avg the mean of exactly the
\* candles_per_period bars right before them, so the series has at least
\* 2 * candles_per_period bars.
C22_AdjacentEqualWindows ==
    (op.name = "windows" /\ op.windows.computed) =>
        LET c == CandlesPerPeriod(op.screener, op.interval, op.days) IN
        /\ op.n >= 2 * c
        /\ op.windows.current = (op.n - c) .. (op.n - 1)
        /\ op.windows.prev = (op.n - 2 * c) .. (op.n - c - 1)

\* C23: the window of an average has momentum_days * 24 bars for hourly,
\* * 6 for 4-hour and * 1 for daily bars; for the weekly interval the two
\* averages are taken over exactly 2 bars in total, whatever momentum_days
\* is, in screen_stocks and in screen_cryptocurrency alike.
C23_WindowLength ==
    (op.name = "windows" /\ op.windows.computed) =>
        CASE op.interval = "1h" ->
               Cardinality(op.windows.current) = op.days * 24
          [] op.interval = "4h" ->
               Cardinality(op.windows.current) = op.days * 6
          [] op.interval = "1d" ->
               Cardinality(op.windows.current) = op.days
          [] op.interval = "1W" ->
               Cardinality(op.windows.current \cup op.windows.prev) = 2
          [] OTHER -> TRUE

----------------------------------------------------------------------------
(* Claims about the stock info lookup, checked under SpecInfo *)

\* C30: after a get_stock_info(symbol) whose upstream lookup failed, the
\* next get_stock_info(symbol), made while the upstream answers, asks the
\* upstream again and returns the market cap and the average volume it
\* answers, so the failure does not make the coarse filter reject the symbol
\* later.
C30_FailureNotRemembered ==
    [][ (/\ op.name = "get_stock_info"
         /\ op.called /\ op.offered.kind # "info"
         /\ op'.name = "get_stock_info"
         /\ op'.symbol = op.symbol
         /\ op'.offered.kind = "info") =>
          /\ op'.called
          /\ op'.ret = StockInfo(op'.symbol, op'.offered.marketCap,
                                 op'.offered.averageVolume)
      ]_vars

====
